---- MODULE Spec2Model ----
(***************************************************************************)
(* A model of the databutton storage client: the retry policy              *)
(* (internal/retries.py), the bearer-token authenticator                   *)
(* (internal/auth.py) and the upload/download pipeline with its four       *)
(* stores (storage/storage.py).                                            *)
(*                                                                         *)
(* Eight specifications share the variables:                               *)
(*   SpecRetry  one function wrapped by default_dbapi_retry                *)
(*   SpecAuth   requests running DatabuttonAuth.auth_flow on one session,  *)
(*              from the threads of the host, overlapping                  *)
(*   SpecClient threads asking for the cached clients and for a token      *)
(*   Spec       one caller using the storage facade                        *)
(*   SpecStore  the four stores against a control plane that stores        *)
(*   SpecTable  the table store and its concat, add and clear against it   *)
(*   SpecCache  a function decorated with @cache (cachetools.py)           *)
(*   SpecConcat two threads calling concat on one key of the table store   *)
(***************************************************************************)
EXTENDS Integers, Sequences, FiniteSets, TLC

VARIABLES
    \* ---- a function wrapped by default_dbapi_retry (SpecRetry)
    r_pc,            \* "idle" | "running" | "done"
    attempt_number,  \* tenacity's retry_state.attempt_number
    history,         \* what each attempt of the wrapped function did
    r_result,        \* what the caller of the wrapped function sees
    \* ---- one DatabuttonAuth session and the requests using it (SpecAuth)
    now,             \* time(), in seconds
    ticks,           \* how often the clock has advanced
    access_token,    \* DatabuttonAuth.access_token; 0 is the empty string
    last_refresh,    \* DatabuttonAuth.last_refresh
    issued,          \* id_tokens the identity endpoint has issued so far
    flow,            \* per request thread: where its auth_flow stands
    \* ---- one caller of the storage facade (Spec)
    pc,              \* "idle", or the network call the operation is at
    op,              \* the facade operation in progress, or the last one
    attempt,         \* attempt number of the network call in progress
    calls,           \* network requests issued by the operation, per endpoint
    last_post,       \* the operation's latest post on the control-plane client
    data_file,       \* the bytes in the operation's SpooledTemporaryFile
    upload,          \* size and md5 computed by serialized_upload
    wire,            \* the operation's transfer requests and their answers
    geturl_response, \* GetUrlResponse of the download: size and md5
    streamed,        \* what gcs_download streamed: bytes, their md5 and size
    decode_calls,    \* calls of serializer.decode_from by the operation
    result,          \* how the last operation ended
    performer,       \* get_performer's functools.cache
    open_files,      \* SpooledTemporaryFiles of the caller that are open
    \* ---- the cached clients and who asks for them (SpecClient)
    client_cache,    \* functools.cache of get_dbapi_client / get_httpx_client
    constructed,     \* httpx.Client objects constructed, per cached function
    sessions,        \* DatabuttonAuth objects created by databutton_auth()
    caller,          \* per thread: where its call stands
    \* ---- the facade against a control plane that stores (SpecStore)
    blobs,           \* per content type: what is stored under the key, if anything
    written,         \* per store: the value of the last put since the last delete
    ret,             \* the last facade call: its arguments, requests and outcome
    \* ---- a function decorated with @cache (SpecCache)
    cache_files,     \* per cache key: the file of that name in cache_path(), if any
    f_calls,         \* how often the decorated function itself was invoked
    completed,       \* the calls that returned since the last clear_cache, and what they returned
    cache_ret,       \* the last call of the wrapper or of clear_cache
    \* ---- threads running concat on one key (SpecConcat)
    cat              \* per thread: where its concat stands and what it read

retryVars == <<r_pc, attempt_number, history, r_result>>
authVars == <<now, ticks, access_token, last_refresh, issued, flow>>
storeVars == <<pc, op, attempt, calls, last_post, data_file, upload, wire, geturl_response,
               streamed, decode_calls, result, performer, open_files>>
clientVars == <<client_cache, constructed, sessions, caller>>
planeVars == <<blobs, written, ret>>
cacheVars == <<cache_files, f_calls, completed, cache_ret>>
catVars == <<cat>>
vars == <<retryVars, authVars, storeVars, clientVars, planeVars, cacheVars, catVars>>

(***************************************************************************)
(* Bounds of the model.                                                    *)
(***************************************************************************)
MaxTicks == 3        \* clock advances in one behaviour of SpecAuth
MaxFacadeTicks == 1  \* clock advances in one behaviour of Spec
MaxSessions == 2     \* sessions after which get_auth_token is not called again
MaxInvocations == 3  \* invocations of the function decorated with @cache
MaxRows == 2         \* rows of a table in SpecTable

(***************************************************************************)
(* Exceptions.  A raised exception is the name of its class; isinstance    *)
(* follows the base classes of httpx, tenacity and the builtins.           *)
(***************************************************************************)
ExceptionClasses ==
    {"ReadTimeout", "ConnectError", "TryAgain", "RemoteProtocolError",
     "RuntimeError", "FileNotFoundError", "ValueError"}

Bases(cls) ==
    CASE cls = "ReadTimeout"         -> {"ReadTimeout", "TimeoutException", "TransportError"}
      [] cls = "ConnectError"        -> {"ConnectError", "NetworkError", "TransportError"}
      [] cls = "RemoteProtocolError" -> {"RemoteProtocolError", "ProtocolError", "TransportError"}
      [] cls = "FileNotFoundError"   -> {"FileNotFoundError", "OSError"}
      [] OTHER                       -> {cls}

isinstance(e, cls) == cls \in Bases(e)

\* What the transport (httpx) can raise instead of returning a response.
TransportErrors == {"ReadTimeout", "ConnectError", "RemoteProtocolError"}



(***************************************************************************)
(* storage/storage.py: keys, content types, hashing, serializers           *)
(***************************************************************************)
\* CHUNKSIZE is 4 MiB in the source; the model's byte strings are a few
\* bytes long, and the chunk is scaled with them so that a buffer can hold
\* more than one chunk.
CHUNKSIZE == 2

\* Characters are one-character strings, keys are sequences of them.
Letters == {"a", "b", "Z"}
Digits == {"7"}

\* The character class [a-zA-Z0-9-_.]
KeyCharClass == Letters \cup Digits \cup {"-", "_", "."}

\* data_key_validator.match(key) for ^[a-zA-Z0-9-_.]+$ : in Python, $ matches
\* at the end of the string and also just before a newline that ends it.
data_key_is_valid(key) ==
    LET n == Len(key)
        m == IF n > 0 /\ key[n] = "\n" THEN n - 1 ELSE n
    IN  /\ m >= 1
        /\ \A i \in 1..m : key[i] \in KeyCharClass

\* The keys callers pass in the model.
Keys == {<<"b", ".", "7">>, <<"b", "a", "d", " ", "k", "e", "y", "!">>, <<"a", "\n">>}

Stores == {"binary", "text", "json", "dataframes"}

\* Serializer.content_type of each store's serializer (class ContentTypes)
content_type_base(store) == "application/octet-stream"

content_type(store) ==
    CASE store = "binary"     -> "application/octet-stream"
      [] store = "text"       -> "text/plain"
      [] store = "json"       -> "application/json"
      [] store = "dataframes" -> "vnd.apache.arrow.file"

\* ---- bytes, chunks and MD5
RECURSIVE ReadChunks(_, _)
\* while chunk := data_file.read(CHUNKSIZE): the chunks read from offset pos
ReadChunks(bytes, pos) ==
    IF pos > Len(bytes) THEN <<>>
    ELSE LET end == IF pos + CHUNKSIZE - 1 > Len(bytes) THEN Len(bytes)
                    ELSE pos + CHUNKSIZE - 1
         IN  <<SubSeq(bytes, pos, end)>> \o ReadChunks(bytes, end + 1)

RECURSIVE HashUpdate(_, _)
\* hashalg.update(chunk): MD5 is modelled by a polynomial hash of the byte
\* stream, which like MD5 depends on the bytes and not on how they are cut
\* into chunks.
HashUpdate(h, chunk) ==
    IF chunk = <<>> THEN h
    ELSE HashUpdate((h * 257 + chunk[1] + 1) % 1000003, Tail(chunk))

RECURSIVE HashChunks(_, _)
HashChunks(h, chunks) ==
    IF chunks = <<>> THEN h ELSE HashChunks(HashUpdate(h, chunks[1]), Tail(chunks))

RECURSIVE SizeChunks(_)
SizeChunks(chunks) ==
    IF chunks = <<>> THEN 0 ELSE Len(chunks[1]) + SizeChunks(Tail(chunks))

\* base64.b64encode(digest).decode("utf-8"): the digest written in base 64
b64encode(h) == <<(h \div 262144) % 64, (h \div 4096) % 64, (h \div 64) % 64, h % 64>>

\* What the server computes for a blob it holds
md5_of(bytes) == b64encode(HashUpdate(0, bytes))

\* ---- values and serializers
BinaryValues == {<<>>, <<1>>, <<1, 2, 3>>, <<1, 2, 4>>}

\* Text values are sequences of code points.
TextValues == {<<>>, <<97>>, <<233, 97>>}

\* str.encode("utf-8"), for code points below 2048
RECURSIVE utf8_encode(_)
utf8_encode(cps) ==
    IF cps = <<>> THEN <<>>
    ELSE (IF cps[1] < 128 THEN <<cps[1]>>
          ELSE <<192 + (cps[1] \div 64), 128 + (cps[1] % 64)>>) \o utf8_encode(Tail(cps))

\* bytes.decode("utf-8", errors="strict"): <<-1>> stands for UnicodeDecodeError
RECURSIVE utf8_decode(_)
utf8_decode(bytes) ==
    IF bytes = <<>> THEN <<>>
    ELSE IF bytes[1] < 128
    THEN (LET rest == utf8_decode(Tail(bytes))
          IN  IF rest = <<-1>> THEN <<-1>> ELSE <<bytes[1]>> \o rest)
    ELSE IF /\ bytes[1] >= 194 /\ bytes[1] < 224 /\ Len(bytes) >= 2
            /\ bytes[2] >= 128 /\ bytes[2] < 192
    THEN (LET rest == utf8_decode(Tail(Tail(bytes)))
          IN  IF rest = <<-1>> THEN <<-1>>
              ELSE <<(bytes[1] - 192) * 64 + (bytes[2] - 128)>> \o rest)
    ELSE <<-1>>

\* A JSON document of the model is a dict with at most one item; it is
\* written <<>> when empty and <<key, value>> otherwise, with a one-character
\* string key and a one-digit integer value.
JsonValues == {<<>>, <<"a", 1>>}

\* json.dumps(value).encode("utf-8")
json_dumps(v) ==
    IF v = <<>> THEN <<123, 125>>
    ELSE <<123, 34, 97, 34, 58, 32, 48 + v[2], 125>>

\* json.load(fp): <<-1>> stands for JSONDecodeError
json_load(bytes) ==
    IF bytes = <<123, 125>> THEN <<>>
    ELSE IF /\ Len(bytes) = 8
            /\ SubSeq(bytes, 1, 6) = <<123, 34, 97, 34, 58, 32>>
            /\ bytes[7] \in 48..57
            /\ bytes[8] = 125
    THEN <<"a", bytes[7] - 48>>
    ELSE <<-1>>

\* A table (DataFrame) of the model has one column; it is a record of its
\* index labels and its cells.
Frame(index, cells) == [index |-> index, cells |-> cells]

RECURSIVE RangeIndex(_)
RangeIndex(n) == IF n = 0 THEN <<>> ELSE RangeIndex(n - 1) \o <<n - 1>>

FrameValues == {Frame(<<>>, <<>>), Frame(<<0>>, <<7>>), Frame(<<5>>, <<7>>)}

\* DataFrame.reset_index(drop=True)
reset_index(df) == Frame(RangeIndex(Len(df.cells)), df.cells)

\* DataFrame.to_feather: the file holds the number of rows and the cells
\* (the default index is not stored).
to_feather(df) == <<65, Len(df.cells)>> \o df.cells

\* pd.read_feather: <<-1>> stands for an error reading the file
read_feather_ok(bytes) ==
    /\ Len(bytes) >= 2
    /\ bytes[1] = 65
    /\ bytes[2] = Len(bytes) - 2

read_feather(bytes) == Frame(RangeIndex(bytes[2]), SubSeq(bytes, 3, Len(bytes)))

ValuesOf(store) ==
    CASE store = "binary"     -> BinaryValues
      [] store = "text"       -> TextValues
      [] store = "json"       -> JsonValues
      [] store = "dataframes" -> FrameValues

\* serializer.encode_into(value, data_file): the bytes written
encode_into(store, value) ==
    CASE store = "binary"     -> value
      [] store = "text"       -> utf8_encode(value)
      [] store = "json"       -> json_dumps(value)
      [] store = "dataframes" -> to_feather(value)

\* Whether serializer.decode_from(data_file) raises on these bytes
decode_raises(store, bytes) ==
    CASE store = "binary"     -> FALSE
      [] store = "text"       -> utf8_decode(bytes) = <<-1>>
      [] store = "json"       -> json_load(bytes) = <<-1>>
      [] store = "dataframes" -> ~read_feather_ok(bytes)

\* serializer.decode_from(data_file), after data_file.seek(0)
decode_from(store, bytes) ==
    CASE store = "binary"     -> bytes
      [] store = "text"       -> utf8_decode(bytes)
      [] store = "json"       -> json_load(bytes)
      [] store = "dataframes" -> read_feather(bytes)

(***************************************************************************)
(* internal/retries.py                                                     *)
(***************************************************************************)
is_retryable_exception_lenient(e) == TRUE

is_retryable_exception(e) ==
    IF isinstance(e, "TimeoutException") THEN TRUE
    ELSE IF isinstance(e, "NetworkError") THEN TRUE
    ELSE IF isinstance(e, "TryAgain") THEN TRUE
    ELSE FALSE

\* stop=tenacity.stop_after_attempt(5)
stop_after_attempt_six == 5 + 1

stop_after_attempt == 5

\* tenacity.retry(stop, wait, retry, reraise=True), after attempt number n of
\* the wrapped function raised e: "again" (sleep, then one more attempt) or
\* "raise" (e itself reaches the caller: reraise=True re-raises the last
\* attempt's exception, not a RetryError).
default_dbapi_retry_offbyone(e, n) ==
    IF ~is_retryable_exception(e) THEN "raise"
    ELSE IF n > stop_after_attempt THEN "raise"
    ELSE "again"

default_dbapi_retry(e, n) ==
    IF ~is_retryable_exception(e) THEN "raise"
    ELSE IF n >= stop_after_attempt THEN "raise"
    ELSE "again"

\* A function without the decorator: whatever it raises reaches the caller.
undecorated(e, n) == "raise"

(***************************************************************************)
(* SpecRetry: a control-plane function under @default_dbapi_retry.  Each   *)
(* attempt either gets a response with a status code, or raises what the   *)
(* transport raised, or raises tenacity.TryAgain itself.                   *)
(***************************************************************************)
StatusCodes == {200, 404, 500}

\* What one send of a request comes to: a response with a status code, or an
\* exception raised instead of a response.
Response(status) == [exc |-> "none", status |-> status]
Raised(e) == [exc |-> e, status |-> 0]

AttemptOutcomes ==
    {Response(s) : s \in StatusCodes} \cup {Raised(e) : e \in TransportErrors \cup {"TryAgain"}}

\* prepare_upload's mapping of the response: 200 returns, any other status
\* raises RuntimeError; an exception raised by the send passes through.
prepare_upload_raises(o) ==
    IF o.exc # "none" THEN o.exc
    ELSE IF o.status = 200 THEN "none"
    ELSE "RuntimeError"

RetryInit ==
    /\ r_pc = "idle"
    /\ attempt_number = 0
    /\ history = <<>>
    /\ r_result = [kind |-> "none", exc |-> "none", attempts |-> 0]

RetryCall ==
    /\ r_pc = "idle"
    /\ r_pc' = "running"
    /\ attempt_number' = 1
    /\ UNCHANGED <<history, r_result>>

RetryAttempt(o) ==
    /\ r_pc = "running"
    /\ history' = Append(history, prepare_upload_raises(o))
    /\ LET e == prepare_upload_raises(o) IN
       IF e = "none"
       THEN /\ r_pc' = "done"
            /\ r_result' = [kind |-> "return", exc |-> "none", attempts |-> attempt_number]
            /\ UNCHANGED attempt_number
       ELSE IF default_dbapi_retry(e, attempt_number) = "again"
       THEN /\ attempt_number' = attempt_number + 1
            /\ UNCHANGED <<r_pc, r_result>>
       ELSE /\ r_pc' = "done"
            /\ r_result' = [kind |-> "raise", exc |-> e, attempts |-> attempt_number]
            /\ UNCHANGED attempt_number

(***************************************************************************)
(* internal/auth.py: class DatabuttonAuth                                  *)
(***************************************************************************)
\* The threads that issue authenticated requests
Threads == {1, 2}

refresh_interval == 15 * 60

\* The clock advances by a second or by just under the refresh interval, so
\* that the ages 899, 900 and 901 seconds all occur.
ClockSteps == {1, refresh_interval - 1}

EmptyToken == 0

IdleFlow ==
    [pc |-> "idle", stale |-> FALSE, age_at_check |-> 0, lr_at_check |-> 0,
     tok_at_check |-> EmptyToken, exchanges |-> 0,
     resp_status |-> 0, id_token |-> EmptyToken, bearer |-> EmptyToken,
     exc |-> "none"]

\* DatabuttonAuth.__init__, called at time 0
AuthInit ==
    /\ now = 0
    /\ ticks = 0
    /\ access_token = EmptyToken
    /\ last_refresh = 0 - 2 * refresh_interval
    /\ issued = 0
    /\ flow = [t \in Threads |-> IdleFlow]

token_expires_soon_inclusive == now - last_refresh >= refresh_interval

token_expires_soon == now - last_refresh > refresh_interval

\* auth_flow up to its first yield: the staleness check; when stale, the
\* refresh request is yielded and sent.
auth_flow_begin(t) ==
    /\ flow[t].pc = "idle"
    /\ IF token_expires_soon
       THEN /\ flow' = [flow EXCEPT ![t] =
                 [IdleFlow EXCEPT !.pc = "refresh", !.stale = TRUE, !.age_at_check = now - last_refresh,
                    !.lr_at_check = last_refresh, !.tok_at_check = access_token,
                    !.exchanges = 1]]
       ELSE /\ flow' = [flow EXCEPT ![t] =
                 [IdleFlow EXCEPT !.pc = "apply", !.age_at_check = now - last_refresh,
                    !.lr_at_check = last_refresh, !.tok_at_check = access_token]]
    /\ UNCHANGED <<now, ticks, access_token, last_refresh, issued>>

\* The identity endpoint answers the refresh request: 200 with a newly
\* issued id_token, or a non-success status.
refresh_response(t, status) ==
    /\ flow[t].pc = "refresh"
    /\ flow' = [flow EXCEPT ![t].pc = "handle", ![t].resp_status = status,
                  ![t].id_token = IF status = 200 THEN issued + 1 ELSE EmptyToken]
    /\ issued' = IF status = 200 THEN issued + 1 ELSE issued
    /\ UNCHANGED <<now, ticks, access_token, last_refresh>>

\* The send of the refresh request raises: the exception leaves auth_flow.
refresh_raises(t, e) ==
    /\ flow[t].pc = "refresh"
    /\ flow' = [flow EXCEPT ![t].pc = "failed", ![t].exc = e]
    /\ UNCHANGED <<now, ticks, access_token, last_refresh, issued>>

\* What handle_refresh_response stores as access token (line 40).
stored_access_token(t) == flow[t].id_token

\* handle_refresh_response, first half: the status check and the assignment
\* of access_token.
handle_refresh_response_any_status(t) ==
    /\ flow[t].pc = "handle"
    /\ access_token' = stored_access_token(t)
    /\ IF flow[t].resp_status = 200
       THEN flow' = [flow EXCEPT ![t].pc = "handle_time"]
       ELSE flow' = [flow EXCEPT ![t].pc = "failed", ![t].exc = "RuntimeError"]
    /\ UNCHANGED <<now, ticks, last_refresh, issued>>

handle_refresh_response(t) ==
    /\ flow[t].pc = "handle"
    /\ IF flow[t].resp_status = 200
       THEN /\ access_token' = stored_access_token(t)
            /\ flow' = [flow EXCEPT ![t].pc = "handle_time"]
       ELSE /\ flow' = [flow EXCEPT ![t].pc = "failed", ![t].exc = "RuntimeError"]
            /\ UNCHANGED access_token
    /\ UNCHANGED <<now, ticks, last_refresh, issued>>

\* handle_refresh_response, second half: self.last_refresh = time()
handle_refresh_time(t) ==
    /\ flow[t].pc = "handle_time"
    /\ last_refresh' = now
    /\ flow' = [flow EXCEPT ![t].pc = "apply"]
    /\ UNCHANGED <<now, ticks, access_token, issued>>

\* The token that apply_access_token puts into the Authorization header
\* (line 59).
bearer_token_at_check(t) == flow[t].tok_at_check

bearer_token(t) == access_token

\* apply_access_token, and the yield of the authorized request
apply_access_token(t) ==
    /\ flow[t].pc = "apply"
    /\ IF access_token = EmptyToken
       THEN flow' = [flow EXCEPT ![t].pc = "failed", ![t].exc = "RuntimeError"]
       ELSE flow' = [flow EXCEPT ![t].pc = "sent", ![t].bearer = bearer_token(t)]
    /\ UNCHANGED <<now, ticks, access_token, last_refresh, issued>>

\* The request is over (answered, or failed in the auth flow).
flow_end(t) ==
    /\ flow[t].pc \in {"sent", "failed"}
    /\ flow' = [flow EXCEPT ![t] = IdleFlow]
    /\ UNCHANGED <<now, ticks, access_token, last_refresh, issued>>

Tick(d) ==
    /\ ticks < MaxTicks
    /\ ticks' = ticks + 1
    /\ now' = now + d
    /\ UNCHANGED <<access_token, last_refresh, issued, flow>>

AuthStep(t) ==
    \/ \E status \in StatusCodes : refresh_response(t, status)
    \/ \E e \in TransportErrors : refresh_raises(t, e)
    \/ handle_refresh_response(t)
    \/ handle_refresh_time(t)
    \/ apply_access_token(t)
    \/ flow_end(t)

\* Requests from several threads, overlapping
AuthNext ==
    /\ \/ \E t \in Threads : auth_flow_begin(t)
       \/ \E t \in Threads : AuthStep(t)
       \/ \E d \in ClockSteps : Tick(d)
    /\ UNCHANGED <<retryVars, storeVars, clientVars, planeVars, cacheVars, catVars>>


(***************************************************************************)
(* internal/dbapiclient.py, internal/httpxclient.py, internal/auth.py: the *)
(* clients kept by functools.cache and the sessions made by                *)
(* databutton_auth().  A call of a cached function looks its result up; on *)
(* a miss it runs the function and then stores what it returned.           *)
(***************************************************************************)
CachedClients == {"dbapi", "httpx"}

Functions == {"get_dbapi_client", "get_httpx_client", "get_auth_token"}

\* The cached client a call of fn asks for: get_auth_token sends its refresh
\* request on get_httpx_client()
client_of(fn) == IF fn = "get_dbapi_client" THEN "dbapi" ELSE "httpx"

IdleCaller == [pc |-> "idle", fn |-> "none", client |-> "none", made |-> 0, got |-> 0]

ClientInit ==
    /\ client_cache = [c \in CachedClients |-> 0]
    /\ constructed = [c \in CachedClients |-> 0]
    /\ sessions = 0
    /\ caller = [t \in Threads |-> IdleCaller]

\* Thread t calls fn: get_auth_token makes a session with databutton_auth()
\* first; then the cache of the client is looked up.
cache_lookup(t, fn) ==
    /\ caller[t].pc = "idle"
    /\ fn = "get_auth_token" => sessions < MaxSessions
    /\ caller' = [caller EXCEPT ![t] =
           [pc |-> IF client_cache[client_of(fn)] = 0 THEN "miss" ELSE "have",
            fn |-> fn, client |-> client_of(fn), made |-> 0,
            got |-> client_cache[client_of(fn)]]]
    /\ sessions' = IF fn = "get_auth_token" THEN sessions + 1 ELSE sessions
    /\ UNCHANGED <<client_cache, constructed>>
    /\ UNCHANGED <<retryVars, authVars, storeVars, planeVars, cacheVars, catVars>>

\* The body of get_dbapi_client or get_httpx_client runs: a new httpx.Client,
\* for get_dbapi_client with auth=databutton_auth(), a new session
client_construct(t) ==
    /\ caller[t].pc = "miss"
    /\ constructed' = [constructed EXCEPT ![caller[t].client] = @ + 1]
    /\ sessions' = IF caller[t].client = "dbapi" THEN sessions + 1 ELSE sessions
    /\ caller' = [caller EXCEPT ![t].pc = "store",
                                ![t].made = constructed[caller[t].client] + 1]
    /\ UNCHANGED client_cache
    /\ UNCHANGED <<retryVars, authVars, storeVars, planeVars, cacheVars, catVars>>

\* functools.cache stores what the body returned, over whatever is there
cache_store(t) ==
    /\ caller[t].pc = "store"
    /\ client_cache' = [client_cache EXCEPT ![caller[t].client] = caller[t].made]
    /\ caller' = [caller EXCEPT ![t].pc = "have", ![t].got = caller[t].made]
    /\ UNCHANGED <<constructed, sessions>>
    /\ UNCHANGED <<retryVars, authVars, storeVars, planeVars, cacheVars, catVars>>

\* The call is over.
call_returns(t) ==
    /\ caller[t].pc = "have"
    /\ caller' = [caller EXCEPT ![t] = IdleCaller]
    /\ UNCHANGED <<client_cache, constructed, sessions>>
    /\ UNCHANGED <<retryVars, authVars, storeVars, planeVars, cacheVars, catVars>>

ClientNext ==
    \/ \E t \in Threads, fn \in Functions : cache_lookup(t, fn)
    \/ \E t \in Threads : client_construct(t)
    \/ \E t \in Threads : cache_store(t)
    \/ \E t \in Threads : call_returns(t)

(***************************************************************************)
(* storage/storage.py: the pipeline and the facade, for one caller.        *)
(* The caller's requests run the auth flow of the control-plane client's   *)
(* session one at a time, so one send of a control-plane request is one    *)
(* step: staleness check, refresh exchange if stale, the request itself.   *)
(***************************************************************************)
Endpoints == {"identity", "refresh", "prepare", "upload", "geturl", "download", "delete", "list"}

ZeroCalls == [e \in Endpoints |-> 0]

\* The keyword arguments of a get as the caller gave them; the operations and
\* stores without them have them at None and False.
NoKwargs == [default |-> "None", ignore_not_found |-> FALSE]

NoOp ==
    [name |-> "none", store |-> "none", key |-> <<>>, value |-> <<>>, default |-> "None",
     kwargs |-> NoKwargs]

NoResult ==
    [kind |-> "none", exc |-> "none", value |-> <<>>, source |-> "none",
     call |-> "none", attempts |-> 0]

\* No post yet.  Of a post: the answer to its refresh exchange (<<>> when the
\* token was fresh), whether the request itself was sent, and the session's
\* access_token and last_refresh as the post found them.
NoPost == [refresh |-> <<>>, sent |-> FALSE, access_token |-> 0, last_refresh |-> 0]

NoUpload == [size |-> 0, md5 |-> <<>>]

\* Nothing of an upload on the wire (yet).  prepare_request is <<>> or the
\* <<PrepareRequest>> last posted, prepare_status the status of its answer,
\* prepare_response <<>> or the <<PrepareResponse>> parsed, put_request <<>> or
\* the <<PUT>> last sent, put_status the status of its answer; geturl_status
\* and download_status are the statuses last answered to a download's location
\* lookup and data fetch (0 when the send raised instead), geturl_ok the number
\* of location lookups answered 200; delete_status is the status last answered
\* to a delete request.
NoWire ==
    [prepare_request |-> <<>>, prepare_status |-> 0, prepare_response |-> <<>>,
     put_request |-> <<>>, put_status |-> 0, geturl_status |-> 0, geturl_ok |-> 0,
     download_status |-> 0, delete_status |-> 0]

NoGetUrl == [size |-> 0, md5 |-> <<>>]

\* Nothing streamed (yet): a size of -1
NoStream == [written |-> <<>>, actual_md5_hash |-> <<>>, actual_size |-> 0 - 1]

StoreInit ==
    /\ pc = "idle"
    /\ op = NoOp
    /\ attempt = 0
    /\ calls = ZeroCalls
    /\ last_post = NoPost
    /\ data_file = <<>>
    /\ upload = NoUpload
    /\ wire = NoWire
    /\ geturl_response = NoGetUrl
    /\ streamed = NoStream
    /\ decode_calls = 0
    /\ result = NoResult
    /\ open_files = 0
    /\ performer = "unset"

\* A facade operation begins: the counts of the previous one are dropped.
Begin(o) ==
    /\ pc = "idle"
    /\ op' = o
    /\ attempt' = 1
    /\ calls' = ZeroCalls
    /\ last_post' = NoPost
    /\ wire' = NoWire
    /\ geturl_response' = NoGetUrl
    /\ streamed' = NoStream
    /\ decode_calls' = 0

\* The operation goes on to the named network call, at its first attempt.
GoTo(call) ==
    /\ pc' = call
    /\ result' = NoResult

\* Leaving the block of `with tempfile.SpooledTemporaryFile(...) as data_file`,
\* by a return or by an exception: the file is closed.  Outside the block
\* there is no file to close.
with_exit_return_only(n, raised) == IF raised THEN n ELSE 0

with_exit(n, raised) == 0

\* The operation ends by raising e out of the named call.
Raises(e, call) ==
    /\ pc' = "done"
    /\ open_files' = with_exit(open_files, TRUE)
    /\ result' = [kind |-> "raise", exc |-> e, value |-> <<>>, source |-> "none",
                  call |-> call, attempts |-> attempt]

\* The operation ends by returning v.
Returns(v, source, call) ==
    /\ pc' = "done"
    /\ open_files' = with_exit(open_files, FALSE)
    /\ result' = [kind |-> "return", exc |-> "none", value |-> v, source |-> source,
                  call |-> call, attempts |-> attempt]

\* The caller has the operation's outcome and goes on.
caller_continues ==
    /\ pc = "done"
    /\ pc' = "idle"
    /\ op' = NoOp
    /\ attempt' = 0
    /\ calls' = ZeroCalls
    /\ last_post' = NoPost
    /\ data_file' = <<>>
    /\ upload' = NoUpload
    /\ wire' = NoWire
    /\ geturl_response' = NoGetUrl
    /\ streamed' = NoStream
    /\ decode_calls' = 0
    /\ result' = NoResult
    /\ UNCHANGED <<authVars, retryVars, clientVars, planeVars, cacheVars, catVars, performer,
                   open_files>>

\* ---- one send on the control-plane client (get_dbapi_client().post)
RefreshOutcomes == {Response(200), Response(500), Raised("ReadTimeout")}

\* What the auth flow raises before the request is sent, "none" if nothing
auth_flow_raises_any_status(ro) ==
    IF ~token_expires_soon THEN "none"
    ELSE IF ro.exc # "none" THEN ro.exc
    ELSE "none"

auth_flow_raises(ro) ==
    IF ~token_expires_soon THEN "none"
    ELSE IF ro.exc # "none" THEN ro.exc
    ELSE IF ro.status # 200 THEN "RuntimeError"
    ELSE "none"

\* The token apply_access_token finds after the auth flow's refresh
token_after_refresh(ro) ==
    IF token_expires_soon /\ ro = Response(200) THEN issued + 1 ELSE access_token

\* What the post comes to: the auth flow's exception, or the request's outcome
post_outcome(ro, o) ==
    IF auth_flow_raises(ro) # "none" THEN Raised(auth_flow_raises(ro)) ELSE o

\* The effect of the post on the session and on the count of requests
dbapi_post(endpoint, ro) ==
    /\ IF token_expires_soon /\ ro = Response(200)
       THEN /\ access_token' = token_after_refresh(ro)
            /\ issued' = issued + 1
            /\ last_refresh' = now
       ELSE UNCHANGED <<access_token, issued, last_refresh>>
    /\ calls' = [calls EXCEPT
                   !["refresh"] = @ + (IF token_expires_soon THEN 1 ELSE 0),
                   ![endpoint] = @ + (IF auth_flow_raises(ro) = "none" THEN 1 ELSE 0)]
    /\ last_post' = [refresh |-> IF token_expires_soon THEN <<ro>> ELSE <<>>,
                     sent |-> auth_flow_raises(ro) = "none",
                     access_token |-> access_token,
                     last_refresh |-> last_refresh]
    /\ UNCHANGED <<now, ticks, flow>>

\* ---- which functions carry @default_dbapi_retry
list_files_retry(e, n) == default_dbapi_retry(e, n)

delete_file_retry(e, n) == undecorated(e, n)

prepare_upload_retry(e, n) == default_dbapi_retry(e, n)

gcs_upload_retry(e, n) == default_dbapi_retry(e, n)

get_download_url_retry(e, n) == default_dbapi_retry(e, n)

gcs_download_retry_any_error(e, n) ==
    IF n >= stop_after_attempt THEN "raise" ELSE "again"

gcs_download_retry(e, n) == undecorated(e, n)


\* ---- upload
\* The size and md5 that serialized_upload computes: the buffer read back
\* in chunks from offset 0
buffer_digest_first_chunk(bytes) ==
    LET chunks == ReadChunks(bytes, 1)
        first == IF chunks = <<>> THEN <<>> ELSE <<chunks[1]>>
    IN  [size |-> SizeChunks(first), md5 |-> b64encode(HashChunks(0, first))]

buffer_digest(bytes) ==
    [size |-> SizeChunks(ReadChunks(bytes, 1)),
     md5 |-> b64encode(HashChunks(0, ReadChunks(bytes, 1)))]

\* serialized_upload up to its first network call.  get_performed_by_now()
\* needs no network when get_performer is cached or the environment names
\* a system or user id (env_ids, read from os.environ by get_performer).
serialized_upload(store, key, value, env_ids) ==
    IF ~data_key_is_valid(key)
    THEN /\ Raises("ValueError", "none")
         /\ data_file' = <<>>
         /\ upload' = NoUpload
         /\ UNCHANGED performer
    ELSE /\ data_file' = encode_into(store, value)
         /\ upload' = buffer_digest(encode_into(store, value))
         /\ IF performer = "set" \/ env_ids # "absent"
            THEN GoTo("prepare") /\ performer' = "set"
            ELSE GoTo("performer") /\ UNCHANGED performer
         /\ open_files' = open_files + 1

\* BinaryStorage.put, TextStorage.put, JsonStorage.put
put(store, key, value, env_ids) ==
    /\ store # "dataframes"
    /\ Begin([name |-> "put", store |-> store, key |-> key, value |-> value,
              default |-> "None", kwargs |-> NoKwargs])
    /\ serialized_upload(store, key, value, env_ids)
    /\ UNCHANGED <<authVars, retryVars>>

\* if not persist_index: value = value.reset_index(drop=True) -- the table
\* DataFramesStorage.put hands to serialized_upload
index_for_put_always_reset(value, persist_index) == reset_index(value)

index_for_put(value, persist_index) == IF persist_index THEN value ELSE reset_index(value)

\* DataFramesStorage.put(key, value=..., df=..., persist_index=...); an
\* argument is <<>> when left out (None) and <<frame>> when given
dataframes_put(key, value, df, persist_index, env_ids) ==
    /\ Begin([name |-> "put", store |-> "dataframes", key |-> key,
              value |-> IF value = <<>> THEN df ELSE value, default |-> "None",
              kwargs |-> NoKwargs])
    /\ IF (value # <<>> /\ df # <<>>) \/ (value = <<>> /\ df = <<>>)
       THEN /\ Raises("ValueError", "none")
            /\ data_file' = <<>>
            /\ upload' = NoUpload
            /\ UNCHANGED performer
       ELSE LET v == IF value = <<>> THEN df[1] ELSE value[1]
            IN  serialized_upload("dataframes", key,
                                  index_for_put(v, persist_index), env_ids)
    /\ UNCHANGED <<authVars, retryVars>>

\* get_performer -> get_auth_token_user -> get_auth_token: a new
\* DatabuttonAuth whose update_access_token_now sends a refresh request on
\* the generic client; sub is whether the token names a user id.
resolve_performer(ro, sub) ==
    /\ pc = "performer"
    /\ calls' = [calls EXCEPT !["identity"] = @ + 1]
    /\ IF ro.exc # "none"
       THEN Raises(ro.exc, "performer") /\ UNCHANGED performer
       ELSE IF ro.status # 200 \/ ~sub
       THEN Raises("RuntimeError", "performer") /\ UNCHANGED performer
       ELSE GoTo("prepare") /\ performer' = "set" /\ UNCHANGED open_files
    /\ UNCHANGED <<authVars, retryVars, op, attempt, last_post, data_file, upload, wire,
                   geturl_response, streamed, decode_calls>>

\* The session urls the control plane may answer a prepare with
SessionUrls == {"https://upload/1", "https://upload/2"}

\* serializer.content_shape_of(value): <<>> stands for None.  The tables of
\* the model have one column.
content_shape_of_none(store, value) == <<>>

content_shape_of(store, value) ==
    IF store = "dataframes"
    THEN <<[numberOfRows |-> Len(value.cells), numberOfProperties |-> 1]>>
    ELSE <<>>

\* The PrepareRequest that serialized_upload builds (lines 393-402)
PrepareRequest ==
    [contentType |-> content_type(op.store),
     contentLength |-> upload.size,
     contentMd5Checksum |-> upload.md5,
     contentShape |-> content_shape_of(op.store,
                                       IF op.store = "dataframes" THEN op.value[1]
                                       ELSE op.value)]

\* One attempt of prepare_upload; on 200 the answer names the session url
prepare_upload(ro, o, url) ==
    /\ pc = "prepare"
    /\ dbapi_post("prepare", ro)
    /\ wire' = IF auth_flow_raises(ro) # "none" THEN wire
               ELSE [wire EXCEPT
                       !.prepare_request = <<PrepareRequest>>,
                       !.prepare_status = o.status,
                       !.prepare_response =
                           IF o = Response(200) THEN <<[sessionUrl |-> url]>> ELSE <<>>]
    /\ LET e == prepare_upload_raises(post_outcome(ro, o)) IN
       IF e = "none"
       THEN GoTo("upload") /\ attempt' = 1 /\ UNCHANGED open_files
       ELSE IF prepare_upload_retry(e, attempt) = "again"
       THEN attempt' = attempt + 1 /\ UNCHANGED <<pc, result, open_files>>
       ELSE Raises(e, "prepare") /\ UNCHANGED attempt
    /\ UNCHANGED <<retryVars, op, data_file, upload, geturl_response, streamed, decode_calls,
                   performer>>

\* gcs_upload's body: how it ends on the PUT's outcome
gcs_upload_raises_lenient(o) ==
    IF o.exc # "none" THEN o.exc
    ELSE IF o.status < 500 THEN "none"
    ELSE "RuntimeError"

gcs_upload_raises(o) ==
    IF o.exc # "none" THEN o.exc
    ELSE IF o.status = 200 THEN "none"
    ELSE "RuntimeError"

\* What the PUT sends as content: the file from where it stands; the digest
\* loop has left it at its end, and gcs_upload rewinds it first (seek(0)).
put_content_unrewound(bytes) == SubSeq(bytes, Len(bytes) + 1, Len(bytes))

put_content(bytes) == SubSeq(bytes, 1, Len(bytes))

\* data_file.seek(0), the first statement of every attempt n of gcs_upload:
\* the offset the PUT reads the file from
put_offset_first_attempt_only(bytes, n) == IF n = 1 THEN 0 ELSE Len(bytes)

put_offset(bytes, n) == 0

\* One attempt of gcs_upload: the PUT of the buffer to the session url, on
\* the generic client
gcs_upload(o) ==
    /\ pc = "upload"
    /\ calls' = [calls EXCEPT !["upload"] = @ + 1]
    /\ wire' = [wire EXCEPT
                  !.put_request =
                      <<[url |-> IF wire.prepare_response = <<>> THEN ""
                                 ELSE wire.prepare_response[1].sessionUrl,
                         content_length |-> upload.size,
                         content |-> put_content(
                             SubSeq(data_file, put_offset(data_file, attempt) + 1,
                                    Len(data_file)))]>>,
                  !.put_status = o.status]
    /\ LET e == gcs_upload_raises(o) IN
       IF e = "none"
       THEN Returns(<<>>, "none", "upload") /\ UNCHANGED attempt
       ELSE IF gcs_upload_retry(e, attempt) = "again"
       THEN attempt' = attempt + 1 /\ UNCHANGED <<pc, result, open_files>>
       ELSE Raises(e, "upload") /\ UNCHANGED attempt
    /\ UNCHANGED <<authVars, retryVars, op, last_post, data_file, upload,
                   geturl_response, streamed, decode_calls, performer>>

\* ---- download
\* The value a caller's default comes to: the store's empty value (b"", "",
\* {} and an empty frame: the defaults that are false in a boolean test).  The
\* default argument is "None", "value" or "callable".
DefaultValue(store) ==
    CASE store = "binary"     -> <<>>
      [] store = "text"       -> <<>>
      [] store = "json"       -> <<>>
      [] store = "dataframes" -> Frame(<<>>, <<>>)

\* serialized_download's except FileNotFoundError clause
not_found_if_truthy(call) ==
    IF op.default = "callable"
    THEN Returns(DefaultValue(op.store),
                 IF op.default = "callable" THEN "default()" ELSE "default", call)
    ELSE Raises("FileNotFoundError", call)

not_found(call) ==
    IF op.default # "None"
    THEN Returns(DefaultValue(op.store),
                 IF op.default = "callable" THEN "default()" ELSE "default", call)
    ELSE Raises("FileNotFoundError", call)

\* BinaryStorage.get, TextStorage.get, JsonStorage.get
get(store, key, default) ==
    /\ store # "dataframes"
    /\ Begin([name |-> "get", store |-> store, key |-> key, value |-> <<>>,
              default |-> default,
              kwargs |-> [default |-> default, ignore_not_found |-> FALSE]])
    /\ GoTo("geturl")
    /\ UNCHANGED open_files
    /\ data_file' = <<>>
    /\ UNCHANGED <<authVars, retryVars, upload, performer>>

\* DataFramesStorage.get(key, ignore_not_found=..., default=...)
\* DataFramesStorage.get: the default handed to serialized_download; with no
\* default and ignore_not_found it is empty_dataframe, a callable
default_for_get_ignoring(default, ignore_not_found) ==
    IF ignore_not_found THEN "callable" ELSE default

default_for_get(default, ignore_not_found) ==
    IF default = "None" /\ ignore_not_found THEN "callable" ELSE default

dataframes_get_as_given(key, ignore_not_found, default) ==
    /\ Begin([name |-> "get", store |-> "dataframes", key |-> key, value |-> <<>>,
              default |-> default,
              kwargs |-> [default |-> default, ignore_not_found |-> ignore_not_found]])
    /\ GoTo("geturl")
    /\ UNCHANGED open_files
    /\ data_file' = <<>>
    /\ UNCHANGED <<authVars, retryVars, upload, performer>>

dataframes_get(key, ignore_not_found, default) ==
    /\ Begin([name |-> "get", store |-> "dataframes", key |-> key, value |-> <<>>,
              default |-> default_for_get(default, ignore_not_found),
              kwargs |-> [default |-> default, ignore_not_found |-> ignore_not_found]])
    /\ GoTo("geturl")
    /\ UNCHANGED open_files
    /\ data_file' = <<>>
    /\ UNCHANGED <<authVars, retryVars, upload, performer>>

\* get_download_url's body: how it ends on the post's outcome
get_download_url_raises_any_not_found(o) ==
    IF o.exc # "none" THEN o.exc
    ELSE IF o.status = 200 THEN "none"
    ELSE "FileNotFoundError"

get_download_url_raises(o) ==
    IF o.exc # "none" THEN o.exc
    ELSE IF o.status = 200 THEN "none"
    ELSE IF o.status = 404 THEN "FileNotFoundError"
    ELSE "RuntimeError"

\* One attempt of get_download_url; the answer declares the size and md5 of
\* the blob the control plane has on record
get_download_url(ro, o, blob) ==
    /\ pc = "geturl"
    /\ dbapi_post("geturl", ro)
    /\ LET e == get_download_url_raises(post_outcome(ro, o)) IN
       IF e = "none"
       THEN /\ GoTo("download")
            /\ open_files' = open_files + 1
            /\ attempt' = 1
            /\ geturl_response' = [size |-> Len(blob), md5 |-> md5_of(blob)]
       ELSE IF get_download_url_retry(e, attempt) = "again"
       THEN attempt' = attempt + 1 /\ UNCHANGED <<pc, result, open_files, geturl_response>>
       ELSE /\ IF e = "FileNotFoundError" THEN not_found("geturl") ELSE Raises(e, "geturl")
            /\ UNCHANGED <<attempt, geturl_response>>
    /\ wire' = IF auth_flow_raises(ro) # "none" THEN wire
               ELSE [wire EXCEPT !.geturl_status = o.status,
                                 !.geturl_ok = @ + (IF o = Response(200) THEN 1 ELSE 0)]
    /\ UNCHANGED <<retryVars, op, data_file, upload, streamed, decode_calls, performer>>

\* stream_download_response_to_file: the chunks of the body are written to
\* the file, hashed and counted as they arrive
stream_download_response_to_file(body) ==
    [written |-> body,
     actual_md5_hash |-> b64encode(HashChunks(0, ReadChunks(body, 1))),
     actual_size |-> SizeChunks(ReadChunks(body, 1))]

\* gcs_download's sanity checking of what was streamed
sanity_check_size_only(download) ==
    IF geturl_response.size # download.actual_size THEN "RuntimeError" ELSE "none"

sanity_check(download) ==
    IF geturl_response.size # download.actual_size THEN "RuntimeError"
    ELSE IF geturl_response.md5 # download.actual_md5_hash THEN "RuntimeError"
    ELSE "none"

\* gcs_download's body: how it ends on the GET's outcome
gcs_download_raises_any_not_found(o, body) ==
    IF o.exc # "none" THEN o.exc
    ELSE IF o.status = 200 THEN sanity_check(stream_download_response_to_file(body))
    ELSE "FileNotFoundError"

gcs_download_raises(o, body) ==
    IF o.exc # "none" THEN o.exc
    ELSE IF o.status = 200 THEN sanity_check(stream_download_response_to_file(body))
    ELSE IF o.status = 404 THEN "FileNotFoundError"
    ELSE "RuntimeError"

\* data_file.seek(0) before serializer.decode_from(data_file): the bytes
\* decode_from reads, the streaming having left the file at its end
decode_input_unrewound(bytes) == SubSeq(bytes, Len(bytes) + 1, Len(bytes))

decode_input(bytes) == SubSeq(bytes, 1, Len(bytes))

\* One attempt of gcs_download on the generic client and, when it returns,
\* the rest of serialized_download: seek(0) and decode_from
gcs_download(o, body) ==
    /\ pc = "download"
    /\ calls' = [calls EXCEPT !["download"] = @ + 1]
    /\ streamed' = IF o = Response(200) THEN stream_download_response_to_file(body)
                   ELSE streamed
    /\ data_file' = IF o = Response(200) THEN stream_download_response_to_file(body).written
                    ELSE data_file
    /\ LET e == gcs_download_raises(o, body) IN
       IF e = "none"
       THEN /\ decode_calls' = decode_calls + 1
            /\ IF decode_raises(op.store, decode_input(body))
               THEN Raises("DecodeError", "decode")
               ELSE Returns(decode_from(op.store, decode_input(body)), "download",
                            "download")
            /\ UNCHANGED attempt
       ELSE IF gcs_download_retry(e, attempt) = "again"
       THEN attempt' = attempt + 1 /\ UNCHANGED <<pc, result, open_files, decode_calls>>
       ELSE /\ IF e = "FileNotFoundError" THEN not_found("download") ELSE Raises(e, "download")
            /\ UNCHANGED <<attempt, decode_calls>>
    /\ wire' = [wire EXCEPT !.download_status = o.status]
    /\ UNCHANGED <<authVars, retryVars, op, last_post, upload, geturl_response, performer>>

\* ---- delete and list
\* BinaryStorage.delete and the other stores' delete
delete(store, key) ==
    /\ Begin([name |-> "delete", store |-> store, key |-> key, value |-> <<>>,
              default |-> "None", kwargs |-> NoKwargs])
    /\ GoTo("delete")
    /\ UNCHANGED open_files
    /\ data_file' = <<>>
    /\ UNCHANGED <<authVars, retryVars, upload, performer>>

\* delete_file's body: how it ends on the post's outcome
delete_file_raises_not_found(o) ==
    IF o.exc # "none" THEN o.exc
    ELSE IF o.status = 200 THEN "none"
    ELSE IF o.status = 404 THEN "FileNotFoundError"
    ELSE "RuntimeError"

delete_file_raises(o) ==
    IF o.exc # "none" THEN o.exc
    ELSE IF o.status = 200 THEN "none"
    ELSE IF o.status = 404 THEN "none"
    ELSE "RuntimeError"

\* One attempt of delete_file
delete_file(ro, o) ==
    /\ pc = "delete"
    /\ dbapi_post("delete", ro)
    /\ LET e == delete_file_raises(post_outcome(ro, o)) IN
       IF e = "none"
       THEN Returns(<<>>, "none", "delete") /\ UNCHANGED attempt
       ELSE IF delete_file_retry(e, attempt) = "again"
       THEN attempt' = attempt + 1 /\ UNCHANGED <<pc, result, open_files>>
       ELSE Raises(e, "delete") /\ UNCHANGED attempt
    /\ wire' = IF auth_flow_raises(ro) # "none" THEN wire
               ELSE [wire EXCEPT !.delete_status = o.status]
    /\ UNCHANGED <<retryVars, op, data_file, upload, geturl_response, streamed, decode_calls,
                   performer>>

\* BinaryStorage.list and the other stores' list
list(store) ==
    /\ Begin([name |-> "list", store |-> store, key |-> <<>>, value |-> <<>>,
              default |-> "None", kwargs |-> NoKwargs])
    /\ GoTo("list")
    /\ UNCHANGED open_files
    /\ data_file' = <<>>
    /\ UNCHANGED <<authVars, retryVars, upload, performer>>

\* list_files's body: how it ends on the post's outcome
list_files_raises(o) ==
    IF o.exc # "none" THEN o.exc
    ELSE IF o.status = 200 THEN "none"
    ELSE "RuntimeError"

\* FileListEntry(name=..., size=...)
FileListEntry(name, size) == [name |-> name, size |-> size]

\* FileList.parse_raw(res.content).items: the entries in the order in which
\* the answer lists them
parse_items(items) == items

\* One attempt of list_files; a 200 answer carries the items
list_files(ro, o, items) ==
    /\ pc = "list"
    /\ dbapi_post("list", ro)
    /\ LET e == list_files_raises(post_outcome(ro, o)) IN
       IF e = "none"
       THEN Returns(parse_items(items), "list", "list") /\ UNCHANGED attempt
       ELSE IF list_files_retry(e, attempt) = "again"
       THEN attempt' = attempt + 1 /\ UNCHANGED <<pc, result, open_files>>
       ELSE Raises(e, "list") /\ UNCHANGED attempt
    /\ UNCHANGED <<retryVars, op, data_file, upload, wire, geturl_response, streamed, decode_calls,
                   performer>>

\* ---- the specification of the facade
\* What the servers may answer: bodies, and the size and md5 they declare
Bodies == {<<>>, <<1, 2, 3>>, <<1, 2, 4>>, <<123, 125>>, <<65, 1, 7>>, <<233>>}

RecordedBlobs == {<<1, 2, 3>>, <<123, 125>>, <<65, 1, 7>>, <<233>>}

\* The bodies the data fetch may bring for what the lookup declared: one of
\* the declared size, whatever its bytes, or an empty one
DownloadBodies(declared) == {b \in Bodies : b = <<>> \/ Len(b) = declared.size}

\* The items a list answer may carry, in the order the control plane chose
ListAnswers ==
    {<<>>,
     <<FileListEntry("a", 1), FileListEntry("b", 0)>>,
     <<FileListEntry("b", 0), FileListEntry("a", 1)>>}

\* What a send on either client may come to in Spec
FacadeOutcomes ==
    {Response(s) : s \in StatusCodes} \cup {Raised("ReadTimeout"), Raised("RemoteProtocolError")}

\* The environment names a system or user id ("set"), or neither.
EnvIds == {"set", "absent"}

DefaultArgs == {"None", "value", "callable"}

OptionalFrames == {<<>>} \cup {<<f>> : f \in FrameValues}

\* Between the facade's steps the clock may pass the refresh interval.  Only
\* the auth flow of a request to the control plane reads the clock: the
\* transfers to and from the signed url carry no auth, and a call that has
\* ended reads nothing, so time that passes there is time that passes before
\* the next request.
StoreTick ==
    /\ ticks < MaxFacadeTicks
    /\ pc \notin {"upload", "download", "done"}
    /\ Tick(refresh_interval + 1)
    /\ UNCHANGED <<retryVars, storeVars, clientVars, planeVars, cacheVars, catVars>>

StoreNext ==
    \/ /\ pc = "idle"
       /\ \E store \in Stores, key \in Keys, env_ids \in EnvIds :
              \E value \in ValuesOf(store) : put(store, key, value, env_ids)
       /\ UNCHANGED <<clientVars, planeVars, cacheVars, catVars>>
    \/ /\ pc = "idle"
       /\ \E key \in Keys, value \in OptionalFrames, df \in OptionalFrames,
             persist_index \in BOOLEAN, env_ids \in EnvIds :
              dataframes_put(key, value, df, persist_index, env_ids)
       /\ UNCHANGED <<clientVars, planeVars, cacheVars, catVars>>
    \/ /\ pc = "performer"
       /\ \E ro \in RefreshOutcomes, sub \in BOOLEAN : resolve_performer(ro, sub)
       /\ UNCHANGED <<clientVars, planeVars, cacheVars, catVars>>
    \/ /\ pc = "prepare"
       /\ \E ro \in RefreshOutcomes, o \in FacadeOutcomes, url \in SessionUrls :
              prepare_upload(ro, o, url)
       /\ UNCHANGED <<clientVars, planeVars, cacheVars, catVars>>
    \/ /\ pc = "upload"
       /\ \E o \in FacadeOutcomes : gcs_upload(o)
       /\ UNCHANGED <<clientVars, planeVars, cacheVars, catVars>>
    \/ /\ pc = "idle"
       /\ \E store \in Stores, key \in Keys, default \in DefaultArgs : get(store, key, default)
       /\ UNCHANGED <<clientVars, planeVars, cacheVars, catVars>>
    \/ /\ pc = "idle"
       /\ \E key \in Keys, ignore_not_found \in BOOLEAN, default \in DefaultArgs :
              dataframes_get(key, ignore_not_found, default)
       /\ UNCHANGED <<clientVars, planeVars, cacheVars, catVars>>
    \/ /\ pc = "geturl"
       /\ \E ro \in RefreshOutcomes, o \in FacadeOutcomes, blob \in RecordedBlobs :
              get_download_url(ro, o, blob)
       /\ UNCHANGED <<clientVars, planeVars, cacheVars, catVars>>
    \/ /\ pc = "download"
       /\ \E o \in FacadeOutcomes, body \in DownloadBodies(geturl_response) :
              gcs_download(o, body)
       /\ UNCHANGED <<clientVars, planeVars, cacheVars, catVars>>
    \/ /\ pc = "idle"
       /\ \E store \in Stores, key \in Keys : delete(store, key)
       /\ UNCHANGED <<clientVars, planeVars, cacheVars, catVars>>
    \/ /\ pc = "delete"
       /\ \E ro \in RefreshOutcomes, o \in FacadeOutcomes : delete_file(ro, o)
       /\ UNCHANGED <<clientVars, planeVars, cacheVars, catVars>>
    \/ /\ pc = "idle"
       /\ \E store \in Stores : list(store)
       /\ UNCHANGED <<clientVars, planeVars, cacheVars, catVars>>
    \/ /\ pc = "list"
       /\ \E ro \in RefreshOutcomes, o \in FacadeOutcomes, items \in ListAnswers :
              list_files(ro, o, items)
       /\ UNCHANGED <<clientVars, planeVars, cacheVars, catVars>>
    \/ caller_continues
    \/ StoreTick

\* The state after construction: nothing called yet, a new session, no
\* operation under way
(***************************************************************************)
(* storage/storage.py: the facade against a control plane that stores what *)
(* it is sent, under one key.  Per content type the control plane keeps    *)
(* the size and md5 of the prepare request and the bytes of the PUT; it    *)
(* answers a lookup or a delete of what it does not hold with 404.  A call *)
(* of the facade is one step; `fail` names the request of the call that is *)
(* answered 500, if any.  Retries and the token are left to Spec.          *)
(***************************************************************************)
StoreKey == <<"b", ".", "7">>

ContentTypeTags == {content_type(s) : s \in Stores}

\* The status a request to the named endpoint is answered with: 500 when the
\* endpoint is failing, 404 from the data fetch when the signed URL has no
\* object behind it ("fetch_not_found"), else 200 or 404 as the key is held
status_of(endpoint, fail, found) ==
    IF fail = endpoint THEN 500
    ELSE IF fail = "fetch_not_found" /\ endpoint = "download" THEN 404
    ELSE IF found THEN 200 ELSE 404

\* How a call ends: "return" with a value, or "raise" with an exception
Out(kind, exc, value) == [kind |-> kind, exc |-> exc, value |-> value]

\* A request to the control plane: its url and the contentType it carries
Request(url, tag) == [url |-> url, contentType |-> tag]

\* serialized_upload of value with the store's serializer: the exception it
\* raises ("none" if it returns), the request it posts, and what the control
\* plane then holds
serialized_upload_to(store, value, fail) ==
    LET bytes == encode_into(store, value)
        d == buffer_digest(bytes)
    IN  [exc |-> IF ~data_key_is_valid(StoreKey) THEN "ValueError"
                 ELSE prepare_upload_raises(Response(status_of("prepare", fail, TRUE))),
         requests |-> IF ~data_key_is_valid(StoreKey) THEN <<>>
                      ELSE <<Request("/storage/prepare", content_type(store))>>,
         entry |-> [size |-> d.size, md5 |-> d.md5, content |-> put_content(bytes)]]

\* gcs_download's sanity checking, against the size and md5 of the lookup
stored_sanity_check(declared, download) ==
    IF declared.size # download.actual_size THEN "RuntimeError"
    ELSE IF declared.md5 # download.actual_md5_hash THEN "RuntimeError"
    ELSE "none"

\* serialized_download with the store's serializer from what the control
\* plane b holds: how it ends
serialized_download_from(b, store, default, fail) ==
    LET entry == b[content_type(store)]
        lookup == get_download_url_raises(
                      Response(status_of("geturl", fail, entry # <<>>)))
        fetch == IF status_of("download", fail, TRUE) # 200
                 THEN gcs_download_raises(Response(status_of("download", fail, TRUE)), <<>>)
                 ELSE stored_sanity_check(
                          entry[1], stream_download_response_to_file(entry[1].content))
        e == IF lookup # "none" THEN lookup
             ELSE IF fetch # "none" THEN fetch
             ELSE IF decode_raises(store, entry[1].content) THEN "DecodeError"
             ELSE "none"
    IN  IF e = "FileNotFoundError"
        THEN (IF default # "None" THEN Out("return", "none", DefaultValue(store))
              ELSE Out("raise", e, <<>>))
        ELSE IF e # "none" THEN Out("raise", e, <<>>)
        ELSE Out("return", "none", decode_from(store, entry[1].content))

\* The last facade call: its name, store and argument, the failure injected,
\* its outcome, what the control plane held for the store before it, the
\* exception of its read (concat), the puts it made and the requests it posted
Ret(name, store, arg, fail, out, before, read_exc, puts, requests) ==
    [name |-> name, store |-> store, arg |-> arg, fail |-> fail,
     kind |-> out.kind, exc |-> out.exc, value |-> out.value,
     before |-> before, read_exc |-> read_exc, puts |-> puts, requests |-> requests]

NoRet == Ret("none", "none", <<>>, "none", Out("none", "none", <<>>), <<>>, "none", 0, <<>>)

PlaneInit ==
    /\ blobs = [t \in ContentTypeTags |-> <<>>]
    /\ written = [s \in Stores |-> <<>>]
    /\ ret = NoRet

\* The upload u of value for the named facade call takes effect.
Uploaded(name, store, arg, value, fail, u, returned, read_exc, requests) ==
    /\ blobs' = IF u.exc = "none" THEN [blobs EXCEPT ![content_type(store)] = <<u.entry>>]
                ELSE blobs
    /\ written' = IF u.exc = "none" THEN [written EXCEPT ![store] = <<value>>] ELSE written
    /\ ret' = Ret(name, store, arg, fail,
                  IF u.exc = "none" THEN Out("return", "none", returned)
                  ELSE Out("raise", u.exc, <<>>),
                  blobs[content_type(store)], read_exc, 1, requests \o u.requests)

\* BinaryStorage.put, TextStorage.put, JsonStorage.put
storage_put(store, value, fail) ==
    /\ store # "dataframes"
    /\ Uploaded("put", store, value, value, fail, serialized_upload_to(store, value, fail),
                <<>>, "none", <<>>)
    /\ UNCHANGED <<retryVars, authVars, storeVars, clientVars, cacheVars, catVars>>

\* DataFramesStorage.put from its reset_index on: what it uploads
dataframes_put_to(value, persist_index, fail) ==
    serialized_upload_to("dataframes", index_for_put(value, persist_index), fail)

\* The arguments of a put of the table store, an argument left out being <<>>,
\* and the table it handed to the serializer, if it came to that
PutArgs(value, df, persist_index, encoded) ==
    [value |-> value, df |-> df, persist_index |-> persist_index, encoded |-> encoded]

\* DataFramesStorage.put(key, value=..., df=..., persist_index=...); it
\* returns True
storage_dataframes_put(value, df, persist_index, fail) ==
    /\ IF (value # <<>> /\ df # <<>>) \/ (value = <<>> /\ df = <<>>)
       THEN /\ ret' = Ret("put", "dataframes", PutArgs(value, df, persist_index, <<>>), fail,
                          Out("raise", "ValueError", <<>>),
                          blobs[content_type("dataframes")], "none", 0, <<>>)
            /\ UNCHANGED <<blobs, written>>
       ELSE LET v == IF value = <<>> THEN df[1] ELSE value[1]
            IN  Uploaded("put", "dataframes",
                         PutArgs(value, df, persist_index, <<index_for_put(v, persist_index)>>),
                         v, fail, dataframes_put_to(v, persist_index, fail), TRUE, "none", <<>>)
    /\ UNCHANGED <<retryVars, authVars, storeVars, clientVars, cacheVars, catVars>>

\* BinaryStorage.get, TextStorage.get, JsonStorage.get
storage_get(store, default, fail) ==
    /\ store # "dataframes"
    /\ ret' = Ret("get", store, default, fail,
                  serialized_download_from(blobs, store, default, fail),
                  blobs[content_type(store)], "none", 0,
                  <<Request("/storage/geturl", content_type(store))>>)
    /\ UNCHANGED <<blobs, written, retryVars, authVars, storeVars, clientVars, cacheVars, catVars>>

\* DataFramesStorage.get: how it ends
dataframes_get_from(b, ignore_not_found, default, fail) ==
    serialized_download_from(b, "dataframes", default_for_get(default, ignore_not_found),
                             fail)

\* DataFramesStorage.get(key, ignore_not_found=..., default=...)
storage_dataframes_get(ignore_not_found, default, fail) ==
    /\ ret' = Ret("get", "dataframes", default, fail,
                  dataframes_get_from(blobs, ignore_not_found, default, fail),
                  blobs[content_type("dataframes")], "none", 0,
                  <<Request("/storage/geturl", content_type("dataframes"))>>)
    /\ UNCHANGED <<blobs, written, retryVars, authVars, storeVars, clientVars, cacheVars, catVars>>

\* The stores' delete: delete_file with the store's content type
storage_delete(store, fail) ==
    LET tag == content_type(store)
        status == status_of("delete", fail, blobs[tag] # <<>>)
        e == delete_file_raises(Response(status))
    IN  /\ blobs' = IF status = 200 THEN [blobs EXCEPT ![tag] = <<>>] ELSE blobs
        /\ written' = IF status = 200 THEN [written EXCEPT ![store] = <<>>] ELSE written
        /\ ret' = Ret("delete", store, <<>>, fail,
                      IF e = "none" THEN Out("return", "none", <<>>)
                      ELSE Out("raise", e, <<>>),
                      blobs[tag], "none", 0, <<Request("/storage/delete", tag)>>)
        /\ UNCHANGED <<retryVars, authVars, storeVars, clientVars, cacheVars, catVars>>

\* What list_files returns from the control plane b for the store
list_files_from(b, store, fail) ==
    LET tag == content_type(store)
        e == list_files_raises(Response(status_of("list", fail, TRUE)))
    IN  IF e # "none" THEN Out("raise", e, <<>>)
        ELSE Out("return", "none",
                 parse_items(IF b[tag] = <<>> THEN <<>>
                             ELSE <<FileListEntry(StoreKey, b[tag][1].size)>>))

\* The stores' list: list_files with the store's content type
storage_list(store, fail) ==
    /\ ret' = Ret("list", store, <<>>, fail, list_files_from(blobs, store, fail),
                  blobs[content_type(store)], "none", 0,
                  <<Request("/storage/list", content_type(store))>>)
    /\ UNCHANGED <<blobs, written, retryVars, authVars, storeVars, clientVars, cacheVars, catVars>>

\* pd.concat([df, other], ignore_index=...): the rows of df, then those of other
pd_concat_other_first(df, other, ignore_index) ==
    Frame(IF ignore_index THEN RangeIndex(Len(df.cells) + Len(other.cells))
          ELSE other.index \o df.index,
          other.cells \o df.cells)

pd_concat(df, other, ignore_index) ==
    Frame(IF ignore_index THEN RangeIndex(Len(df.cells) + Len(other.cells))
          ELSE df.index \o other.index,
          df.cells \o other.cells)

\* DataFramesStorage.concat(key, other, ignore_index=...)
concat(other, ignore_index, fail) ==
    LET g == dataframes_get_from(blobs, FALSE, "None", fail)
        absent == g.kind = "raise" /\ g.exc = "FileNotFoundError"
        new_df == IF absent THEN other ELSE pd_concat(g.value, other, ignore_index)
        geturl == <<Request("/storage/geturl", content_type("dataframes"))>>
    IN  /\ IF g.kind = "raise" /\ ~absent
           THEN /\ ret' = Ret("concat", "dataframes", other, fail, g,
                              blobs[content_type("dataframes")], g.exc, 0, geturl)
                /\ UNCHANGED <<blobs, written>>
           ELSE /\ Len(new_df.cells) <= MaxRows
                /\ Uploaded("concat", "dataframes", other, new_df, fail,
                            dataframes_put_to(new_df, FALSE, fail), new_df,
                            IF absent THEN g.exc ELSE "none", geturl)
        /\ UNCHANGED <<retryVars, authVars, storeVars, clientVars, cacheVars, catVars>>

\* The records callers add
Entries == {8}

\* DataFramesStorage.add(key, entry): concat of pd.DataFrame(entry, index=[0])
add(entry, fail) ==
    /\ entry \in Entries
    /\ concat(Frame(<<0>>, <<entry>>), TRUE, fail)

\* DataFrame.reset_index(): the index labels become a column of the rows
reset_index_keep(df) ==
    Frame(RangeIndex(Len(df.cells)),
          [i \in 1..Len(df.cells) |-> <<df.index[i], df.cells[i]>>])

\* pd.DataFrame(data=[]).reset_index(), the value clear puts
cleared_value_one_row == Frame(<<0>>, <<0>>)

cleared_value == reset_index_keep(Frame(<<>>, <<>>))

\* DataFramesStorage.clear(key)
clear(fail) ==
    /\ Uploaded("clear", "dataframes", <<>>, cleared_value, fail,
                dataframes_put_to(cleared_value, FALSE, fail), TRUE, "none", <<>>)
    /\ UNCHANGED <<retryVars, authVars, storeVars, clientVars, cacheVars, catVars>>

\* The values callers put in SpecStore: an empty and a non-empty one of each
\* kind, and the tables of Spec
PlaneValues(store) ==
    CASE store = "binary"     -> {<<>>, <<1, 2, 3>>}
      [] store = "text"       -> {<<>>, <<233, 97>>}
      [] store = "json"       -> JsonValues
      [] store = "dataframes" -> FrameValues

PlaneDefaults == {"None", "value"}

PlaneNext ==
    \/ \E store \in Stores, fail \in {"none", "prepare"} :
           \E value \in PlaneValues(store) : storage_put(store, value, fail)
    \/ \E value \in FrameValues, persist_index \in BOOLEAN, fail \in {"none", "prepare"} :
           storage_dataframes_put(<<value>>, <<>>, persist_index, fail)
    \/ \E store \in Stores, default \in PlaneDefaults,
          fail \in {"none", "download", "fetch_not_found"} :
           storage_get(store, default, fail)
    \/ \E ignore_not_found \in BOOLEAN, default \in PlaneDefaults,
          fail \in {"none", "download", "fetch_not_found"} :
           storage_dataframes_get(ignore_not_found, default, fail)
    \/ \E store \in Stores, fail \in {"none", "delete"} : storage_delete(store, fail)
    \/ \E store \in Stores, fail \in {"none", "list"} : storage_list(store, fail)

\* The table store alone, with its extra operations
TableNext ==
    \/ \E value \in OptionalFrames, df \in OptionalFrames, persist_index \in BOOLEAN,
          fail \in {"none", "prepare"} :
           storage_dataframes_put(value, df, persist_index, fail)
    \/ \E ignore_not_found \in BOOLEAN, default \in PlaneDefaults,
          fail \in {"none", "download", "fetch_not_found"} :
           storage_dataframes_get(ignore_not_found, default, fail)
    \/ \E fail \in {"none", "delete"} : storage_delete("dataframes", fail)
    \/ \E other \in FrameValues, ignore_index \in BOOLEAN,
          fail \in {"none", "geturl", "download", "fetch_not_found", "prepare"} :
           concat(other, ignore_index, fail)
    \/ \E entry \in Entries,
          fail \in {"none", "geturl", "download", "fetch_not_found", "prepare"} :
           add(entry, fail)
    \/ \E fail \in {"none", "prepare"} : clear(fail)

(***************************************************************************)
(* cachetools.py: a function of one parameter x decorated with @cache.     *)
(***************************************************************************)
\* Python values: an int and a float compare equal when their numbers do.
PyInt(n) == [py |-> "int", v |-> n]

PyFloat(n) == [py |-> "float", v |-> n]

\* Sentinel = SentinelType()
Sentinel == [py |-> "SentinelType", v |-> 0]

\* a == b of Python, for ints and floats
py_eq(a, b) == a.v = b.v

\* pickle.dumps(value, protocol=5): PROTO 5, then BININT1 n for an int and
\* BINFLOAT x for a float (its eight bytes written as the number), then STOP
pickle_dumps(value) ==
    <<128, 5>> \o (IF value.py = "int" THEN <<75, value.v>> ELSE <<71, value.v>>) \o <<46>>

\* pickle.loads / pickle.load
pickle_loads(bytes) == IF bytes[3] = 75 THEN PyInt(bytes[4]) ELSE PyFloat(bytes[4])

\* hash_function(f): the digest of the source text of f
f_hash == <<102>>

RECURSIVE update_args(_, _)
\* for arg in args: h.update(pickle.dumps(arg))
update_args(h, args) ==
    IF args = <<>> THEN h ELSE update_args(h \o pickle_dumps(Head(args)), Tail(args))

RECURSIVE update_kwargs(_, _)
\* for k in sorted(kwargs): h.update(k.encode("utf-8")); h.update(pickle.dumps(kwargs[k]))
\* kwargs is the sequence of the keyword arguments in the order of their names
update_kwargs(h, kwargs) ==
    IF kwargs = <<>> THEN h
    ELSE update_kwargs(h \o Head(kwargs).k \o pickle_dumps(Head(kwargs).v), Tail(kwargs))

\* compute_cache_key: sha256 and base64 are taken as free of collisions, the
\* key is the byte string digested
compute_cache_key(fh, args, kwargs) == update_kwargs(update_args(fh, args), kwargs)

\* The values f is called with, and the two ways of passing x: f(v) and f(x=v)
PyValues == {PyInt(1), PyFloat(1), PyInt(2)}

Calls ==
    {[args |-> <<v>>, kwargs |-> <<>>] : v \in PyValues}
        \cup {[args |-> <<>>, kwargs |-> <<[k |-> <<120>>, v |-> v]>>] : v \in PyValues}

CacheKeys == {compute_cache_key(f_hash, c.args, c.kwargs) : c \in Calls}

\* read_from_cache(key): any failure to open or load the file gives Sentinel
read_from_cache_never(files, key) == Sentinel

read_from_cache(files, key) ==
    IF files[key] = <<>> THEN Sentinel ELSE pickle_loads(files[key][1])

\* write_to_cache(key, value)
write_to_cache(files, key, value) == [files EXCEPT ![key] = <<pickle_dumps(value)>>]

\* What f returns: f need not be pure, the model's f returns the number of its
\* invocation
f(n) == PyInt(n)

NoCacheRet ==
    [name |-> "none", call |-> [args |-> <<>>, kwargs |-> <<>>], kind |-> "none",
     value |-> Sentinel, invoked |-> FALSE]

CacheInit ==
    /\ cache_files = [key \in CacheKeys |-> <<>>]
    /\ f_calls = 0
    /\ completed = {}
    /\ cache_ret = NoCacheRet

\* wrapped(*args, **kwargs) of cache(f); f_raises is whether f, if invoked,
\* raises
wrapped(call, f_raises) ==
    LET key == compute_cache_key(f_hash, call.args, call.kwargs)
        value == read_from_cache(cache_files, key)
    IN  /\ IF value = Sentinel
           THEN /\ f_calls < MaxInvocations
                /\ f_calls' = f_calls + 1
                /\ IF f_raises
                   THEN /\ cache_ret' = [name |-> "call", call |-> call, kind |-> "raise",
                                         value |-> Sentinel, invoked |-> TRUE]
                        /\ UNCHANGED <<cache_files, completed>>
                   ELSE /\ cache_files' = write_to_cache(cache_files, key, f(f_calls + 1))
                        /\ cache_ret' = [name |-> "call", call |-> call, kind |-> "return",
                                         value |-> f(f_calls + 1), invoked |-> TRUE]
                        /\ completed' = completed \cup
                                            {[call |-> call, value |-> f(f_calls + 1)]}
           ELSE /\ cache_ret' = [name |-> "call", call |-> call, kind |-> "return",
                                 value |-> value, invoked |-> FALSE]
                /\ completed' = completed \cup {[call |-> call, value |-> value]}
                /\ UNCHANGED <<cache_files, f_calls>>
        /\ UNCHANGED <<retryVars, authVars, storeVars, clientVars, planeVars, catVars>>

\* clear_cache(): every file of cache_path() is removed
clear_cache ==
    /\ cache_files' = [key \in CacheKeys |-> <<>>]
    /\ completed' = {}
    /\ cache_ret' = [NoCacheRet EXCEPT !.name = "clear"]
    /\ UNCHANGED <<f_calls, retryVars, authVars, storeVars, clientVars, planeVars, catVars>>

CacheNext ==
    \/ \E call \in Calls, f_raises \in BOOLEAN : wrapped(call, f_raises)
    \/ clear_cache

(***************************************************************************)
(* DataFramesStorage.concat called by two threads on one key: its get and  *)
(* its put are separate requests and nothing holds the key between them.   *)
(***************************************************************************)
TableTag == content_type("dataframes")

\* Where the concat of a thread stands: the table it was given, the one it
\* is about to put, the failure injected into its read, how its read ended
\* and the exception it raised
CatState(p, other, ignore_index, new_df, fail, read_exc, exc) ==
    [pc |-> p, other |-> other, ignore_index |-> ignore_index, new_df |-> new_df,
     fail |-> fail, read_exc |-> read_exc, exc |-> exc]

IdleCat == CatState("idle", <<>>, FALSE, <<>>, "none", "none", "none")

CatInit == cat = [t \in Threads |-> IdleCat]

\* The tables the threads append: each thread has a row of its own
OthersOf(t) == {Frame(<<0>>, <<10 + t>>), Frame(<<5>>, <<10 + t>>)}

\* concat up to the put: df = self.get(key=key, ignore_not_found=False),
\* then new_df = other or pd.concat([df, other], ...)
concat_get(t, other, ignore_index, fail) ==
    LET g == dataframes_get_from(blobs, FALSE, "None", fail)
        absent == g.kind = "raise" /\ g.exc = "FileNotFoundError"
    IN  /\ cat[t].pc = "idle"
        /\ cat' = [cat EXCEPT ![t] =
               IF g.kind = "raise" /\ ~absent
               THEN CatState("raised", other, ignore_index, <<>>, fail, g.exc, g.exc)
               ELSE CatState("put", other, ignore_index,
                             IF absent THEN other
                             ELSE pd_concat(g.value, other, ignore_index),
                             fail, IF absent THEN g.exc ELSE "none", "none")]
        /\ UNCHANGED <<retryVars, authVars, storeVars, clientVars, planeVars, cacheVars>>

\* self.put(key=key, value=new_df); return new_df
concat_put(t, fail) ==
    LET u == dataframes_put_to(cat[t].new_df, FALSE, fail)
    IN  /\ cat[t].pc = "put"
        /\ blobs' = IF u.exc = "none" THEN [blobs EXCEPT ![TableTag] = <<u.entry>>]
                    ELSE blobs
        /\ written' = IF u.exc = "none"
                      THEN [written EXCEPT !["dataframes"] = <<cat[t].new_df>>]
                      ELSE written
        /\ cat' = [cat EXCEPT ![t].pc = IF u.exc = "none" THEN "returned" ELSE "raised",
                              ![t].exc = u.exc]
        /\ UNCHANGED <<ret, retryVars, authVars, storeVars, clientVars, cacheVars>>

ConcatNext ==
    \/ \E t \in Threads, ignore_index \in BOOLEAN,
          fail \in {"none", "geturl", "fetch_not_found"} :
           \E other \in OthersOf(t) : concat_get(t, other, ignore_index, fail)
    \/ \E t \in Threads, fail \in {"none", "prepare"} : concat_put(t, fail)

Init == RetryInit /\ AuthInit /\ StoreInit /\ ClientInit /\ PlaneInit /\ CacheInit /\ CatInit

Spec == Init /\ [][StoreNext]_vars

RetryNext ==
    /\ \/ RetryCall
       \/ \E o \in AttemptOutcomes : RetryAttempt(o)
    /\ UNCHANGED <<authVars, storeVars, clientVars, planeVars, cacheVars, catVars>>

SpecRetry == Init /\ [][RetryNext]_vars

SpecAuth == Init /\ [][AuthNext]_vars

SpecClient == Init /\ [][ClientNext]_vars

SpecStore == Init /\ [][PlaneNext]_vars

SpecTable == Init /\ [][TableNext]_vars

SpecCache == Init /\ [][CacheNext]_vars

SpecConcat == Init /\ [][ConcatNext]_vars

(***************************************************************************)
(* Claims about the retry policy, checked under SpecRetry.                 *)
(***************************************************************************)
\* The transient errors as the specification names them: a timeout, a
\* network/connectivity error, an explicit try-again signal.
TransientErrors == {"ReadTimeout", "ConnectError", "TryAgain"}

AllTransient(h, n) == \A i \in 1..n : h[i] \in TransientErrors

\* C4: a wrapped call never makes more than 5 attempts; when the first 4
\* attempts raise a transient error and the 5th succeeds, the call returns
\* after exactly 5 attempts; when every attempt raises a transient error the
\* call ends after exactly 5 attempts and raises the 5th attempt's error itself.
C4_RetryBound ==
    /\ Len(history) <= 5
    /\ (r_pc = "running" /\ AllTransient(history, Len(history))) => Len(history) < 5
    /\ (r_pc = "done" /\ Len(history) >= 5 /\ AllTransient(history, 4) /\ history[5] = "none")
           => r_result = [kind |-> "return", exc |-> "none", attempts |-> 5]
    /\ (r_pc = "done" /\ AllTransient(history, Len(history)))
           => /\ Len(history) = 5
              /\ r_result = [kind |-> "raise", exc |-> history[5], attempts |-> 5]

C4_Witness ==
    /\ r_pc = "done"
    /\ Len(history) = 5
    /\ AllTransient(history, 4)
    /\ history[5] = "none"
    /\ r_result.kind = "return"

C4_WitnessExhausted ==
    /\ r_pc = "done"
    /\ history = <<"ReadTimeout", "ReadTimeout", "TryAgain", "ReadTimeout", "ConnectError">>
    /\ r_result.exc = "ConnectError"

\* C5: an attempt that raises an error that is not transient (RuntimeError for
\* a non-success status, a protocol error of the transport) is the last
\* attempt of the call, whichever attempt it is, and that error is what the
\* caller gets.
C5_FatalNotRetried ==
    \A i \in 1..Len(history) :
        (history[i] # "none" /\ history[i] \notin TransientErrors)
            => /\ i = Len(history)
               /\ r_pc = "done"
               /\ r_result = [kind |-> "raise", exc |-> history[i], attempts |-> i]

C5_Witness ==
    /\ r_pc = "done"
    /\ Len(history) = 3
    /\ AllTransient(history, 2)
    /\ history[3] = "RuntimeError"
    /\ r_result.exc = "RuntimeError"

(***************************************************************************)
(* Claims about the auth session, checked under SpecAuth: the session is   *)
(* the one get_dbapi_client caches, shared by the threads of the host.     *)
(* flow[t] keeps, for the request thread t is running, what its staleness  *)
(* check saw (the age of the token, the                                    *)
(* token and timestamp held then), how many refresh exchanges it made and  *)
(* the bearer token it was sent with.                                      *)
(***************************************************************************)
FifteenMinutes == 15 * 60

InRefresh(t) == flow[t].pc \in {"refresh", "handle", "handle_time"}

\* C7: requests that run concurrently on one session never refresh at the
\* same time: at most one of them is between detecting the stale token and
\* the end of handle_refresh_response, so redundant exchanges and interleaved
\* updates of access_token and last_refresh do not happen.
C7_SingleRefresher ==
    \A t, u \in Threads : (t # u /\ InRefresh(t)) => ~InRefresh(u)

\* C8 as stated: a request whose staleness check happens less than 15
\* minutes after the last refresh makes no refresh exchange, goes straight to
\* attaching the token, finds access_token and last_refresh left as they
\* were, and is sent with that token as bearer.
C8_FreshTokenReused ==
    \A t \in Threads :
        (flow[t].pc # "idle" /\ flow[t].age_at_check < FifteenMinutes)
            => /\ flow[t].exchanges = 0
               /\ flow[t].pc \in {"apply", "sent"}
               /\ access_token = flow[t].tok_at_check
               /\ last_refresh = flow[t].lr_at_check
               /\ flow[t].tok_at_check # EmptyToken
               /\ flow[t].pc = "sent" => flow[t].bearer = flow[t].tok_at_check

\* C9 as stated: a request whose staleness check happens at or after
\* T + 15 minutes, exactly T + 15 minutes included, makes exactly one refresh
\* exchange before it is sent.
C9_RefreshAtOrAfterInterval ==
    \A t \in Threads :
        (flow[t].pc # "idle" /\ flow[t].age_at_check >= FifteenMinutes)
            => flow[t].exchanges = 1

\* C9 as amended: a request whose staleness check happens more than 15
\* minutes after the last refresh makes exactly one refresh exchange, and is
\* sent only after that exchange was answered with 200 and stored; at
\* exactly 15 minutes the token is still reused without a refresh.
C9_RefreshAfterInterval ==
    \A t \in Threads :
        flow[t].pc # "idle"
            => /\ flow[t].age_at_check > FifteenMinutes
                   => /\ flow[t].exchanges = 1
                      /\ flow[t].pc = "sent"
                           => /\ flow[t].resp_status = 200
                              /\ last_refresh >= flow[t].lr_at_check + flow[t].age_at_check
               /\ flow[t].age_at_check = FifteenMinutes
                   => /\ flow[t].exchanges = 0
                      /\ flow[t].pc \in {"apply", "sent"}

C9_Witness ==
    \E t \in Threads :
        /\ flow[t].pc = "sent"
        /\ flow[t].age_at_check = FifteenMinutes + 1
        /\ flow[t].tok_at_check # EmptyToken
        /\ flow[t].exchanges = 1

C9_WitnessBoundary ==
    \E t \in Threads :
        /\ flow[t].pc = "sent"
        /\ flow[t].age_at_check = FifteenMinutes
        /\ flow[t].exchanges = 0

\* C10 as stated: a request that found the token stale is sent only after
\* its refresh exchange was answered with 200 and handled, and its bearer
\* token is the id_token of that answer, not the token held when the check
\* was made.
C10_RefreshBeforeSend ==
    \A t \in Threads :
        (flow[t].pc = "sent" /\ flow[t].stale)
            => /\ flow[t].exchanges = 1
               /\ flow[t].resp_status = 200
               /\ flow[t].id_token # EmptyToken
               /\ flow[t].bearer = flow[t].id_token
               /\ flow[t].bearer # flow[t].tok_at_check
               /\ access_token = flow[t].id_token
               /\ last_refresh >= flow[t].lr_at_check + flow[t].age_at_check

\* C12: access_token changes only in handle_refresh_response of a refresh
\* exchange answered with 200, to the id_token of that answer, and
\* last_refresh changes only as the next statement of that same call, to the
\* time of the call: the staleness check, the refresh request, a refused or
\* failed exchange, apply_access_token and the end of the request change
\* neither, and no call changes only one of the two.
C12_OnlyRefreshMutates ==
    [][ /\ access_token' # access_token
            => \E t \in Threads :
                   /\ flow[t].pc = "handle"
                   /\ flow[t].resp_status = 200
                   /\ access_token' = flow[t].id_token
                   /\ flow'[t].pc = "handle_time"
        /\ last_refresh' # last_refresh
            => \E t \in Threads :
                   /\ flow[t].pc = "handle_time"
                   /\ flow[t].resp_status = 200
                   /\ last_refresh' = now
        /\ \A t \in Threads :
               (flow[t].pc = "handle_time" /\ flow'[t] # flow[t])
                   => /\ last_refresh' = now
                      /\ access_token' = access_token
                      /\ flow'[t].pc = "apply"
      ]_vars

\* A second refresh has replaced a token and reset the timestamp.
C12_Witness ==
    \E t \in Threads :
        /\ flow[t].pc = "apply"
        /\ flow[t].stale
        /\ flow[t].tok_at_check # EmptyToken
        /\ access_token = flow[t].id_token
        /\ access_token # flow[t].tok_at_check
        /\ last_refresh = now

(***************************************************************************)
(* Claims about the cached clients and the sessions, checked under         *)
(* SpecClient.                                                             *)
(***************************************************************************)
\* C13 as stated: whatever calls of get_dbapi_client (the authenticated
\* storage calls) and of get_auth_token a process makes, at most one
\* DatabuttonAuth session is ever created.
C13_OneAuthSession == sessions <= 1

\* C14 as stated: each cached client is constructed at most once, also when
\* threads call for it at the same time, and a call that has its client has
\* the one that is cached.
C14_ClientConstructedOnce ==
    /\ \A c \in CachedClients : constructed[c] <= 1
    /\ \A t \in Threads :
           caller[t].pc = "have" => caller[t].got = client_cache[caller[t].client]

(***************************************************************************)
(* Claims about the storage facade, checked under Spec.  At pc = "done"    *)
(* the operation op has ended with result; calls counts the requests the   *)
(* operation sent, per endpoint, with "refresh" the auth session's token   *)
(* exchanges and "identity" the exchange get_performer makes.              *)
(***************************************************************************)
\* The characters of the data-key pattern ^[A-Za-z0-9._-]+$ that the keys of
\* the model are written with
PatternChars == {"a", "b", "d", "e", "k", "y", "7", ".", "_", "-"}

\* key matches the pattern: it is one or more pattern characters and nothing
\* else
MatchesDataKeyPattern(key) ==
    /\ Len(key) >= 1
    /\ \A i \in 1..Len(key) : key[i] \in PatternChars

InFlight == pc \in {"performer", "prepare", "upload", "geturl", "download", "delete", "list"}

\* C1 as stated: a put, on any store, with a key that does not match the
\* data-key pattern ends at once by raising ValueError, having sent no request
\* at all: no prepare, no upload, no token refresh, no identity exchange.
C1_InvalidKeyPutRejected ==
    (op.name = "put" /\ ~MatchesDataKeyPattern(op.key))
        => /\ pc = "done"
           /\ result.kind = "raise"
           /\ result.exc = "ValueError"
           /\ calls = ZeroCalls
           /\ upload = NoUpload

\* C2 as stated: a get, on any store, with a key that does not match the
\* data-key pattern never has a request in flight and ends with a validation
\* error, having sent no request at all.
C2_InvalidKeyGetRejected ==
    (op.name = "get" /\ ~MatchesDataKeyPattern(op.key))
        => /\ ~InFlight
           /\ result.kind = "raise"
           /\ result.exc = "ValueError"
           /\ calls = ZeroCalls

\* The digest the server declares for bytes it holds, computed over the whole
\* of them at once
DeclaredDigest(bytes) == [size |-> Len(bytes), md5 |-> md5_of(bytes)]

Mismatch ==
    /\ streamed # NoStream
    /\ DeclaredDigest(streamed.written) # geturl_response

\* C3: a get that returns a downloaded value received bytes whose count and
\* md5 are the size and md5 the control plane declared, and decoded them
\* once; a get whose received bytes differ from the declaration in size or
\* in md5 raises and never calls the decoder.
C3_IntegrityEnforced ==
    (pc = "done" /\ op.name = "get")
        => /\ result.source = "download"
               => /\ streamed # NoStream
                  /\ DeclaredDigest(streamed.written) = geturl_response
                  /\ decode_calls = 1
           /\ Mismatch
               => /\ result.kind = "raise"
                  /\ result.exc = "RuntimeError"
                  /\ result.value = <<>>
                  /\ decode_calls = 0

\* A body of the declared size whose md5 differs is refused.
C3_Witness ==
    /\ pc = "done"
    /\ op.name = "get"
    /\ streamed.written = <<1, 2, 4>>
    /\ geturl_response = DeclaredDigest(<<1, 2, 3>>)
    /\ result.exc = "RuntimeError"
    /\ decode_calls = 0

C3_WitnessReturned ==
    /\ pc = "done"
    /\ op.name = "get"
    /\ result.source = "download"
    /\ streamed.written = <<1, 2, 3>>
    /\ result.value = <<1, 2, 3>>

NetworkCalls == {"list", "delete", "prepare", "upload", "geturl", "download"}

\* C6 as stated: whichever network call of the pipeline it is (list, delete,
\* upload preparation, upload PUT, download-location lookup, data fetch), an
\* operation that ends with a transient error of that call has made 5
\* attempts of it.
C6_EveryCallRetried ==
    (pc = "done" /\ result.kind = "raise" /\ result.call \in NetworkCalls
                 /\ result.exc \in TransientErrors)
        => result.attempts = 5

(***************************************************************************)
(* Claims about the auth session as the storage operations use it, checked *)
(* under Spec.  last_post is the latest post of the operation on the       *)
(* control-plane client.                                                   *)
(***************************************************************************)
\* The refresh exchange of the latest post was answered with a non-success
\* status.
RefreshRefused ==
    /\ last_post.refresh # <<>>
    /\ last_post.refresh[1].exc = "none"
    /\ last_post.refresh[1].status # 200

\* C11: when the refresh exchange of a post is answered with a non-success
\* status, the operation ends there by raising RuntimeError to its caller:
\* the pending request is not sent, no further attempt follows, and
\* access_token and last_refresh are as the post found them.
C11_RefreshFailureIsFatal ==
    RefreshRefused
        => /\ pc = "done"
           /\ result.kind = "raise"
           /\ result.exc = "RuntimeError"
           /\ ~last_post.sent
           /\ access_token = last_post.access_token
           /\ last_refresh = last_post.last_refresh

\* A second attempt of prepare_upload, after a timeout, finds the token stale
\* and its refresh is refused.
C11_Witness ==
    /\ pc = "done"
    /\ RefreshRefused
    /\ op.name = "put"
    /\ result.call = "prepare"
    /\ result.attempts = 2
    /\ calls["refresh"] = 2
    /\ calls["prepare"] = 1
    /\ access_token # EmptyToken

\* The operation is an upload.
IsPut == op.name = "put"

\* C15: the PUT is issued only after the prepare of the same upload was
\* answered 200, and to the session url that answer carried; an upload whose
\* prepare failed issues no PUT; put returns normally only when the prepare
\* and the PUT were both answered 200, and fails on any other PUT status.
C15_PutOnlyAfterPrepare ==
    IsPut =>
        /\ (pc = "upload" \/ calls["upload"] >= 1)
               => /\ wire.prepare_status = 200
                  /\ wire.prepare_response # <<>>
        /\ wire.put_request # <<>>
               => wire.put_request[1].url = wire.prepare_response[1].sessionUrl
        /\ (pc = "done" /\ result.call = "prepare" /\ result.kind = "raise")
               => calls["upload"] = 0 /\ wire.put_request = <<>>
        /\ (pc = "done" /\ result.kind = "return")
               => wire.prepare_status = 200 /\ wire.put_status = 200
        /\ (pc = "done" /\ wire.put_request # <<>> /\ wire.put_status # 200)
               => result.kind = "raise" /\ result.call = "upload"

\* An upload returned after a PUT to the second session url.
C15_Witness ==
    /\ IsPut /\ pc = "done" /\ result.kind = "return"
    /\ wire.put_request # <<>>
    /\ wire.put_request[1].url = "https://upload/2"

\* An upload failed on a PUT answered 404.
C15_WitnessPutRefused ==
    /\ IsPut /\ pc = "done" /\ result.kind = "raise"
    /\ wire.put_status = 404

\* C16: the length and digest in the prepare request are those of exactly the
\* bytes the serializer wrote into the buffer; the PUT declares that length
\* as Content-Length and carries those same bytes.
C16_DeclaredMatchesBuffer ==
    /\ wire.prepare_request # <<>>
           => /\ wire.prepare_request[1].contentLength = Len(data_file)
              /\ wire.prepare_request[1].contentMd5Checksum = DeclaredDigest(data_file).md5
    /\ wire.put_request # <<>>
           => /\ wire.put_request[1].content_length = Len(data_file)
              /\ wire.put_request[1].content = data_file

\* An upload of a buffer of more than one chunk was prepared and sent.
C16_Witness ==
    /\ IsPut /\ pc = "done" /\ result.kind = "return"
    /\ Len(data_file) > CHUNKSIZE
    /\ wire.put_request # <<>>
    /\ wire.put_request[1].content = data_file

\* C17: a prepare answered 404 makes put fail with an error of a kind other
\* than the generic failure raised for the other non-success statuses.
C17_PrepareNotFoundDistinct ==
    (IsPut /\ pc = "done" /\ result.call = "prepare" /\ result.kind = "raise"
        /\ wire.prepare_request # <<>> /\ wire.prepare_status = 404)
        => result.exc # prepare_upload_raises(Response(500))

\* The location lookup of a download was answered 404 and the operation ended.
LookupNotFound ==
    /\ op.name = "get" /\ pc = "done"
    /\ result.call = "geturl" /\ wire.geturl_status = 404

\* C18: when the location lookup is answered 404 and a default was supplied,
\* get returns the default (the result of calling it when it is callable) and
\* fetches no data; so also for an empty default such as {}.
C18_DefaultOnNotFound ==
    (LookupNotFound /\ op.default # "None")
        => /\ result.kind = "return"
           /\ result.value = DefaultValue(op.store)
           /\ result.source = IF op.default = "callable" THEN "default()" ELSE "default"
           /\ calls["download"] = 0
           /\ wire.download_status = 0

\* The json store returned the empty default {} for a missing key.
C18_Witness ==
    /\ LookupNotFound /\ op.store = "json" /\ op.default = "value"
    /\ DefaultValue(op.store) = <<>>
    /\ result.kind = "return" /\ result.source = "default"

\* A callable default was called for a missing key.
C18_WitnessCallable ==
    /\ LookupNotFound /\ op.default = "callable"
    /\ result.kind = "return" /\ result.source = "default()"

\* C19 as stated: get on a missing key returns its default argument also when
\* that is None (None is returned rather than a not-found error).
C19_DefaultReturnedEvenNone ==
    (LookupNotFound /\ op.kwargs.default = "None")
        => result.kind = "return" /\ result.source = "default"

\* C19 amended: on a missing key, get returns the default when the caller gave
\* one other than None (calling it when callable); with default None the
\* binary, text and json stores raise FileNotFoundError, and the dataframes
\* store returns an empty frame when ignore_not_found is True and raises
\* FileNotFoundError when it is False.
C19_MissingKey ==
    LookupNotFound =>
        IF op.kwargs.default # "None"
        THEN /\ result.kind = "return"
             /\ result.value = DefaultValue(op.store)
             /\ result.source =
                    IF op.kwargs.default = "callable" THEN "default()" ELSE "default"
        ELSE IF op.store = "dataframes" /\ op.kwargs.ignore_not_found
        THEN /\ result.kind = "return"
             /\ result.value = Frame(<<>>, <<>>)
             /\ result.source = "default()"
        ELSE /\ result.kind = "raise"
             /\ result.exc = "FileNotFoundError"

\* The binary store raised FileNotFoundError for a missing key, default None.
C19_Witness ==
    /\ LookupNotFound /\ op.store = "binary" /\ op.kwargs.default = "None"
    /\ result.kind = "raise" /\ result.exc = "FileNotFoundError"

\* The dataframes store returned an empty frame for a missing key, default None.
C19_WitnessFrames ==
    /\ LookupNotFound /\ op.store = "dataframes" /\ op.kwargs.default = "None"
    /\ op.kwargs.ignore_not_found
    /\ result.kind = "return" /\ result.value = Frame(<<>>, <<>>)

\* The data fetch of a download was answered a status other than 200 and the
\* operation ended.
FetchRefused ==
    /\ op.name = "get" /\ pc = "done"
    /\ result.call = "download" /\ wire.download_status \notin {0, 200}

\* C20 as stated: any status other than 200 on the data fetch makes get fail,
\* also when the caller supplied a default.
C20_FetchFailureFatal ==
    FetchRefused => result.kind = "raise"

\* C20 amended: a data fetch answered 404 counts as not found, so get returns
\* the default when one is in effect and raises FileNotFoundError otherwise;
\* any other status than 200 and 404 makes get fail with RuntimeError, also
\* when a default is in effect.
C20_FetchNotFoundOrFatal ==
    FetchRefused =>
        IF wire.download_status = 404
        THEN IF op.default # "None"
             THEN /\ result.kind = "return"
                  /\ result.value = DefaultValue(op.store)
                  /\ result.source = IF op.default = "callable" THEN "default()" ELSE "default"
             ELSE /\ result.kind = "raise"
                  /\ result.exc = "FileNotFoundError"
        ELSE /\ result.kind = "raise"
             /\ result.exc = "RuntimeError"

\* A data fetch answered 500 failed a get that had a default.
C20_Witness ==
    /\ FetchRefused /\ wire.download_status = 500 /\ op.default # "None"
    /\ result.kind = "raise" /\ result.exc = "RuntimeError"

\* A data fetch answered 404 made get return its default.
C20_WitnessDefault ==
    /\ FetchRefused /\ wire.download_status = 404 /\ op.default = "value"
    /\ result.kind = "return" /\ result.source = "default"

\* A get that had a default in effect has ended.
GetWithDefault == op.name = "get" /\ pc = "done" /\ op.default # "None"

\* The get ended on an answer of not found, of the lookup or of the fetch.
AnsweredNotFound ==
    \/ result.call = "geturl" /\ wire.geturl_status = 404
    \/ result.call = "download" /\ wire.download_status = 404

\* C21: a get with a default in effect returns only what it downloaded or,
\* on an answer of not found, the default; it raises RuntimeError when the
\* location lookup is answered another non-success status, raises the
\* transport's own error when the lookup's last attempt raised one (after 5
\* attempts when the error is transient), and raises RuntimeError when the
\* integrity check fails.
C21_OtherErrorsPropagate ==
    GetWithDefault =>
        /\ (result.call = "geturl" /\ last_post.sent /\ wire.geturl_status \notin {0, 200, 404})
               => result.kind = "raise" /\ result.exc = "RuntimeError"
        /\ (result.call = "geturl" /\ last_post.sent /\ wire.geturl_status = 0)
               => /\ result.kind = "raise"
                  /\ result.exc \in TransportErrors
                  /\ is_retryable_exception(result.exc)
                         => result.attempts = stop_after_attempt
        /\ Mismatch
               => result.kind = "raise" /\ result.exc = "RuntimeError"
        /\ result.kind = "return"
               => result.source = "download" \/ AnsweredNotFound

\* A lookup that timed out five times failed a get that had a default.
C21_Witness ==
    /\ GetWithDefault /\ result.call = "geturl"
    /\ result.attempts = stop_after_attempt
    /\ result.kind = "raise" /\ result.exc = "ReadTimeout"

\* A lookup answered 500 failed a get that had a default.
C21_WitnessStatus ==
    /\ GetWithDefault /\ result.call = "geturl" /\ wire.geturl_status = 500
    /\ result.kind = "raise" /\ result.exc = "RuntimeError"

\* An integrity mismatch failed a get that had a default.
C21_WitnessMismatch ==
    /\ GetWithDefault /\ Mismatch /\ result.kind = "raise"

\* C22: a size or digest mismatch ends the get at once: it has raised after
\* exactly one data fetch, made at its first attempt, and exactly one location
\* lookup that was answered 200.
C22_MismatchNotRetried ==
    Mismatch
        => /\ pc = "done"
           /\ result.kind = "raise"
           /\ result.call = "download"
           /\ result.attempts = 1
           /\ calls["download"] = 1
           /\ wire.geturl_ok = 1

\* A digest mismatch on a body of the declared size, after a lookup that
\* itself was retried.
C22_Witness ==
    /\ Mismatch /\ pc = "done"
    /\ streamed.actual_size = geturl_response.size
    /\ calls["geturl"] > 1
    /\ calls["download"] = 1

\* What handle_refresh_response raises for a refresh answered another status
\* than 200
RefreshRefusedKind == "RuntimeError"

\* The kinds of error raised for a refused token refresh and for a location
\* lookup or data fetch answered a generic non-success status.
OtherFailureKinds ==
    {RefreshRefusedKind, get_download_url_raises(Response(500)),
     gcs_download_raises(Response(500), <<>>)}

\* C23: the error raised for a size or digest mismatch is of another kind than
\* a network failure, a refused token refresh and a generic non-success
\* status.
C23_IntegrityKindDistinct ==
    (Mismatch /\ pc = "done" /\ result.kind = "raise")
        => /\ result.exc \notin TransportErrors
           /\ result.exc \notin OtherFailureKinds

\* C24: a delete sends at most one delete request; it returns normally
\* exactly when that request was sent and answered 200 or 404, and raises
\* RuntimeError when it was answered any other status.
C24_DeleteIdempotent ==
    op.name = "delete" =>
        /\ calls["delete"] <= 1
        /\ (pc = "done" /\ last_post.sent /\ wire.delete_status \in {200, 404})
               => result.kind = "return" /\ calls["delete"] = 1
        /\ (pc = "done" /\ last_post.sent /\ wire.delete_status \notin {0, 200, 404})
               => result.kind = "raise" /\ result.exc = "RuntimeError"
        /\ (pc = "done" /\ result.kind = "return")
               => /\ calls["delete"] = 1
                  /\ last_post.sent
                  /\ wire.delete_status \in {200, 404}

\* A delete of an absent key returned normally.
C24_Witness ==
    /\ op.name = "delete" /\ pc = "done"
    /\ wire.delete_status = 404
    /\ result.kind = "return"

\* A delete answered 500 failed.
C24_WitnessFatal ==
    /\ op.name = "delete" /\ pc = "done"
    /\ wire.delete_status = 500
    /\ result.kind = "raise"

\* The calls of the pipeline that run inside the with-block of the buffer
InsideWith == {"performer", "prepare", "upload", "download"}

\* C27: a caller has at most one transfer buffer open, has it open only while
\* its put or get is inside the with-block, and has none open once the call
\* has returned or raised, whatever the outcome.
C27_BufferReleased ==
    /\ open_files \in {0, 1}
    /\ open_files = 1 <=> pc \in InsideWith
    /\ pc \in {"idle", "done"} => open_files = 0

\* A put whose PUT timed out five times has ended.
C27_Witness ==
    /\ pc = "done" /\ IsPut /\ result.call = "upload"
    /\ result.attempts = stop_after_attempt /\ result.exc = "ReadTimeout"
    /\ open_files = 0

\* A get has ended on an integrity mismatch.
C27_WitnessMismatch == pc = "done" /\ Mismatch /\ open_files = 0

\* A get has ended on a decode failure.
C27_WitnessDecode ==
    pc = "done" /\ result.exc = "DecodeError" /\ open_files = 0

\* A get has returned the value it downloaded.
C27_WitnessReturned ==
    pc = "done" /\ result.source = "download" /\ open_files = 0

\* Names in the order of Python's str comparison, for the model's names
NameOrder == <<"a", "b">>

NameRank(name) == CHOOSE i \in 1..Len(NameOrder) : NameOrder[i] = name

SortedByName(items) ==
    \A i \in 1..Len(items), j \in 1..Len(items) :
        i < j => NameRank(items[i].name) <= NameRank(items[j].name)

\* C28: the entries list() returns are sorted by name, whatever the order of
\* the control plane's answer.
C28_ListSorted ==
    (op.name = "list" /\ pc = "done" /\ result.kind = "return")
        => SortedByName(result.value)

(***************************************************************************)
(* Claims about the stores against a control plane that stores, checked    *)
(* under SpecStore.                                                        *)
(***************************************************************************)
\* The last call was a get, with no request failing, of a store whose key
\* was put and not deleted since.
GetAfterPut == ret.name = "get" /\ ret.fail = "none" /\ written[ret.store] # <<>>

C25_WitnessIndex ==
    /\ GetAfterPut /\ ret.store = "dataframes"
    /\ written["dataframes"] = <<Frame(<<5>>, <<7>>)>>
    /\ ret.value = Frame(<<0>>, <<7>>)

\* An empty json document and a text of two-byte characters came back.
C25_WitnessJsonText ==
    /\ GetAfterPut /\ ret.store = "text"
    /\ written["json"] = <<(<<>>)>>
    /\ ret.value = <<233, 97>>

\* What the callers of store s can see of the control plane b: what get(k)
\* and list() return when every request is answered.
visible_in(b, s) ==
    [get |-> IF s = "dataframes" THEN dataframes_get_from(b, TRUE, "None", "none")
             ELSE serialized_download_from(b, s, "None", "none"),
     list |-> list_files_from(b, s, "none")]

\* C26: the stores' content-type tags differ from one another, every request
\* of a call carries the tag of the call's store, and no call of one store
\* changes what get(k) or list() returns in another store.
C26_NoCollision ==
    [][/\ \A s, t \in Stores : s # t => content_type(s) # content_type(t)
       /\ \A i \in DOMAIN ret'.requests :
              ret'.requests[i].contentType = content_type(ret'.store)
       /\ \A s \in Stores :
              s # ret'.store => visible_in(blobs', s) = visible_in(blobs, s)]_vars

\* The text store and the binary store hold different values under the one
\* key, and a put of the text store has just returned.
C26_Witness ==
    /\ ret.name = "put" /\ ret.store = "text" /\ ret.kind = "return"
    /\ written["binary"] = <<(<<1, 2, 3>>)>>
    /\ written["text"] = <<(<<233, 97>>)>>
    /\ visible_in(blobs, "binary").get.value = <<1, 2, 3>>
    /\ visible_in(blobs, "text").get.value = <<233, 97>>

\* A delete of the json store removed its value while the table store kept its own.
C26_WitnessDelete ==
    /\ ret.name = "delete" /\ ret.store = "json" /\ ret.kind = "return"
    /\ ret.before # <<>>
    /\ written["dataframes"] # <<>>
    /\ visible_in(blobs, "dataframes").list.value # <<>>
    /\ visible_in(blobs, "json").list.value = <<>>

(***************************************************************************)
(* Claims about the table store's concat, add and clear, checked under     *)
(* SpecTable.                                                              *)
(***************************************************************************)
\* The rows of the table the control plane holds in entries (none when it
\* holds nothing)
rows_held(entries) ==
    IF entries = <<>> THEN <<>> ELSE read_feather(entries[1].content).cells

\* C29 as stated: when the key exists, a concat that returns has persisted
\* and returned the stored table followed by the rows of other; when the key
\* is absent it has persisted and returned other.
C29_ConcatAppends ==
    (ret.name = "concat" /\ ret.kind = "return")
        => /\ ret.value.cells = rows_held(ret.before) \o ret.arg.cells
           /\ rows_held(blobs[TableTag]) = rows_held(ret.before) \o ret.arg.cells

\* C29 amended: a concat whose read reports not-found (a 404 of the location
\* lookup or of the data fetch) puts other and, the put succeeding, returns
\* other; one whose read returns the stored table puts and returns the stored
\* rows followed by the rows of other; one whose read fails otherwise fails
\* with that error without a put, the key left as it was.  A key the control
\* plane did not hold is created only by a concat whose read reported
\* not-found.
C29_Concat ==
    ret.name = "concat"
        => /\ ret.read_exc = "FileNotFoundError"
                => /\ ret.puts = 1
                   /\ ret.kind = "return"
                        => /\ ret.value = ret.arg
                           /\ rows_held(blobs[TableTag]) = ret.arg.cells
           /\ ret.read_exc = "none"
                => /\ ret.puts = 1
                   /\ ret.before # <<>>
                   /\ ret.kind = "return"
                        => /\ ret.value.cells = rows_held(ret.before) \o ret.arg.cells
                           /\ rows_held(blobs[TableTag]) = ret.value.cells
           /\ ret.read_exc \notin {"none", "FileNotFoundError"}
                => /\ ret.kind = "raise" /\ ret.exc = ret.read_exc
                   /\ ret.puts = 0
                   /\ blobs[TableTag] = ret.before
           /\ (ret.before = <<>> /\ blobs[TableTag] # <<>>)
                => ret.read_exc = "FileNotFoundError"
           /\ (ret.before = <<>> /\ ret.fail \notin {"geturl"})
                => ret.read_exc = "FileNotFoundError"

\* add appended the record 8 to a stored table of one row.
C29_Witness ==
    /\ ret.name = "concat" /\ ret.kind = "return" /\ ret.read_exc = "none"
    /\ rows_held(ret.before) = <<7>>
    /\ ret.value = Frame(<<0, 1>>, <<7, 8>>)
    /\ rows_held(blobs[TableTag]) = <<7, 8>>

\* concat created an absent key with other.
C29_WitnessAbsent ==
    /\ ret.name = "concat" /\ ret.kind = "return" /\ ret.fail = "none"
    /\ ret.before = <<>>
    /\ ret.arg = Frame(<<5>>, <<7>>) /\ ret.value = ret.arg
    /\ rows_held(blobs[TableTag]) = <<7>>

\* The read of concat failed with another error than not-found.
C29_WitnessReadFails ==
    /\ ret.name = "concat" /\ ret.kind = "raise" /\ ret.exc = "RuntimeError"
    /\ ret.puts = 0 /\ ret.before # <<>>

\* The data fetch of concat's read answered 404 for a key the control plane
\* holds: the stored rows were replaced by those of other.
C29_WitnessFetchNotFound ==
    /\ ret.name = "concat" /\ ret.kind = "return" /\ ret.fail = "fetch_not_found"
    /\ rows_held(ret.before) = <<7>>
    /\ rows_held(blobs[TableTag]) = <<8>>

\* C30: after clear(key) has returned, get(key) returns a table of zero
\* rows, whatever the key held before and also when it held nothing.
C30_ClearEmpties ==
    (ret.name = "clear" /\ ret.kind = "return")
        => \A ignore_not_found \in BOOLEAN, default \in PlaneDefaults :
               LET g == dataframes_get_from(blobs, ignore_not_found, default, "none")
               IN  /\ g.kind = "return"
                   /\ g.value = Frame(<<>>, <<>>)
                   /\ blobs[TableTag] # <<>>

\* clear returned for a key that held two rows.
C30_Witness ==
    /\ ret.name = "clear" /\ ret.kind = "return"
    /\ rows_held(ret.before) = <<7, 8>>
    /\ rows_held(blobs[TableTag]) = <<>>

\* clear returned for a key that did not exist.
C30_WitnessAbsent ==
    /\ ret.name = "clear" /\ ret.kind = "return"
    /\ ret.before = <<>>
    /\ blobs[TableTag] # <<>>

(***************************************************************************)
(* Claims about the shape, the order of the steps and the bounds of a      *)
(* transfer, checked under Spec.                                           *)
(***************************************************************************)
\* C31: the prepare request of an upload carries a content shape exactly
\* when the store is the table store.
C31_ShapeOnlyForTables ==
    wire.prepare_request # <<>>
        => (wire.prepare_request[1].contentShape # <<>> <=> op.store = "dataframes")

\* A prepare request of the table store with the shape of a one-row table.
C31_Witness ==
    /\ op.store = "dataframes"
    /\ wire.prepare_request # <<>>
    /\ wire.prepare_request[1].contentShape = <<[numberOfRows |-> 1, numberOfProperties |-> 1]>>

\* A prepare request of the json store without a shape.
C31_WitnessNoShape ==
    /\ op.store = "json"
    /\ wire.prepare_request # <<>>
    /\ wire.prepare_request[1].contentShape = <<>>

(***************************************************************************)
(* Claims about @cache, checked under SpecCache.                           *)
(***************************************************************************)
\* The argument x a call binds, passed by position or by name
bound_x(call) == IF call.args # <<>> THEN call.args[1] ELSE call.kwargs[1].v

\* The calls completed since the last clear_cache whose argument equals that
\* of call
EqualCompleted(call) == {c \in completed : py_eq(bound_x(c.call), bound_x(call))}

\* The calls completed since the last clear_cache that passed the same
\* arguments in the same way, pickling to the same bytes
SamePickleCompleted(call) == {c \in completed : c.call = call}

\* C32 as stated: a call whose arguments equal those of an earlier completed
\* call returns the stored result without invoking the function again.
C32_EqualArgsHit ==
    [][(cache_ret'.name = "call" /\ EqualCompleted(cache_ret'.call) # {})
           => /\ f_calls' = f_calls
              /\ \E c \in EqualCompleted(cache_ret'.call) : cache_ret'.value = c.value]_vars

\* C32 amended: a call passing, in the same way, arguments that pickle to the
\* same bytes as those of a call completed since the last clear_cache returns
\* what that call returned and does not invoke the function; any other call
\* invokes the function once and, when it returns, its pickled result is the
\* file of the call's key; a call after clear_cache is such another call.
C32_CacheByPickle ==
    [][cache_ret'.name = "call"
           => LET call == cache_ret'.call
                  key == compute_cache_key(f_hash, call.args, call.kwargs)
              IN  /\ SamePickleCompleted(call) # {}
                       => /\ f_calls' = f_calls
                          /\ cache_ret'.kind = "return"
                          /\ \A c \in SamePickleCompleted(call) : cache_ret'.value = c.value
                  /\ SamePickleCompleted(call) = {}
                       => /\ f_calls' = f_calls + 1
                          /\ cache_ret'.kind = "return"
                               => cache_files'[key] = <<pickle_dumps(cache_ret'.value)>>
                          /\ cache_ret'.kind = "raise" => cache_files'[key] = cache_files[key]
                  /\ (f_calls' # f_calls) = cache_ret'.invoked]_vars

\* A call f(1) was answered from the cache with the result of the first
\* invocation, after f had been invoked for another argument as well.
C32_Witness ==
    /\ cache_ret.name = "call" /\ ~cache_ret.invoked
    /\ cache_ret.call = [args |-> <<PyInt(1)>>, kwargs |-> <<>>]
    /\ cache_ret.value = PyInt(1)
    /\ f_calls = 2

\* f(1.0) invoked the function although f(1) had completed and was cached.
C32_WitnessEqualMiss ==
    /\ cache_ret.name = "call" /\ cache_ret.invoked
    /\ cache_ret.call = [args |-> <<PyFloat(1)>>, kwargs |-> <<>>]
    /\ [call |-> [args |-> <<PyInt(1)>>, kwargs |-> <<>>], value |-> PyInt(1)] \in completed

\* After clear_cache, f(1) invoked the function again: it is the only call
\* completed since, and it returned the second invocation's result.
C32_WitnessCleared ==
    /\ cache_ret.name = "call" /\ cache_ret.invoked
    /\ completed = {[call |-> [args |-> <<PyInt(1)>>, kwargs |-> <<>>], value |-> PyInt(2)]}
    /\ f_calls = 2

\* C33: a PUT attempt that follows a failed one is made without another
\* prepare, goes to the session url of the attempt before, which is the one
\* prepare answered, and sends the whole buffer with the same Content-Length.
C33_RetriedPutRepeats ==
    [][(pc = "upload" /\ attempt > 1 /\ calls'["upload"] = calls["upload"] + 1)
           => /\ calls'["prepare"] = calls["prepare"]
              /\ wire'.prepare_request = wire.prepare_request
              /\ wire'.put_request[1].url = wire.put_request[1].url
              /\ wire'.put_request[1].url = wire.prepare_response[1].sessionUrl
              /\ wire'.put_request[1].content = data_file
              /\ wire'.put_request[1].content_length = wire.put_request[1].content_length
              /\ wire'.put_request[1].content_length = Len(data_file)]_vars

\* A put of three bytes returned after its third PUT attempt and one prepare.
C33_Witness ==
    /\ op.name = "put" /\ result.kind = "return"
    /\ calls["upload"] = 3 /\ calls["prepare"] = 1
    /\ wire.put_request[1].content = <<1, 2, 3>>
    /\ wire.put_request[1].url = "https://upload/2"

\* C34: in a download the data fetch is issued, and the buffer exists, only
\* after the location lookup was answered 200; decode is called only after a
\* fetch answered 200 whose whole body is in the buffer and has the declared
\* size and digest, and it reads the buffer from offset 0; a lookup that
\* fails issues no data fetch.
C34_DownloadInOrder ==
    op.name = "get"
        => /\ (calls["download"] > 0 \/ pc = "download" \/ open_files > 0)
                => wire.geturl_ok = 1 /\ wire.geturl_status = 200
           /\ decode_calls > 0
                => /\ calls["download"] = 1 /\ wire.download_status = 200
                   /\ data_file = streamed.written
                   /\ streamed.actual_size = Len(streamed.written)
                   /\ streamed.actual_size = geturl_response.size
                   /\ streamed.actual_md5_hash = geturl_response.md5
           /\ (result.kind = "return" /\ result.call = "download" /\ decode_calls > 0)
                => result.value = decode_from(op.store, streamed.written)
           /\ (result.kind # "none" /\ result.call = "geturl")
                => calls["download"] = 0 /\ decode_calls = 0 /\ wire.geturl_ok = 0

\* A get decoded the three bytes fetched after its second lookup attempt.
C34_Witness ==
    /\ op.name = "get" /\ op.store = "binary"
    /\ result.kind = "return" /\ result.value = <<1, 2, 3>>
    /\ calls["geturl"] = 2 /\ calls["download"] = 1 /\ decode_calls = 1

\* A get whose lookup failed for good: no fetch was issued.
C34_WitnessLookupFails ==
    /\ op.name = "get"
    /\ result.kind = "raise" /\ result.call = "geturl" /\ result.exc = "RuntimeError"
    /\ calls["geturl"] = 5 /\ calls["download"] = 0

(***************************************************************************)
(* Further claims about the table store, checked under SpecTable.          *)
(***************************************************************************)
\* The last call was a put of the table store.
TablePut == ret.name = "put" /\ ret.store = "dataframes"

\* C35: a put of the table store given both value and df, or neither, fails
\* with ValueError before any request and leaves the key as it was; given
\* one of them it hands the table to the serializer with its row index
\* replaced by the default one, or as given when persist_index is True.
C35_PutIndexAndArguments ==
    TablePut
        => LET a == ret.arg
               given == a.value \o a.df
           IN  /\ Len(given) # 1
                    => /\ ret.kind = "raise" /\ ret.exc = "ValueError"
                       /\ ret.requests = <<>> /\ ret.puts = 0
                       /\ blobs[TableTag] = ret.before
               /\ Len(given) = 1
                    => /\ ret.requests # <<>>
                       /\ a.encoded # <<>>
                       /\ a.encoded[1].cells = given[1].cells
                       /\ a.persist_index => a.encoded[1].index = given[1].index
                       /\ ~a.persist_index
                            => a.encoded[1].index = RangeIndex(Len(given[1].cells))

\* A put with persist_index=True handed over the table with its index 5.
C35_Witness ==
    /\ TablePut /\ ret.kind = "return"
    /\ ret.arg.persist_index
    /\ ret.arg.value = <<Frame(<<5>>, <<7>>)>>
    /\ ret.arg.encoded = <<Frame(<<5>>, <<7>>)>>

\* A put by df= without persist_index replaced the index 5 by the default.
C35_WitnessDropped ==
    /\ TablePut /\ ret.kind = "return"
    /\ ~ret.arg.persist_index
    /\ ret.arg.df = <<Frame(<<5>>, <<7>>)>>
    /\ ret.arg.encoded = <<Frame(<<0>>, <<7>>)>>

\* A put given both value and df was rejected while the key held a table.
C35_WitnessRejected ==
    /\ TablePut /\ ret.exc = "ValueError"
    /\ ret.arg.value # <<>> /\ ret.arg.df # <<>>
    /\ ret.before # <<>>

\* C36: a get of the table store that is answered not found returns an empty
\* table when called with ignore_not_found and no default, returns the
\* caller's default when one was given, whatever ignore_not_found is, and
\* raises FileNotFoundError exactly when ignore_not_found is False and no
\* default was given.
C36_TableGetMissing ==
    (op.name = "get" /\ op.store = "dataframes" /\ pc = "done" /\ AnsweredNotFound)
        => LET given == op.kwargs.default
               ignore_not_found == op.kwargs.ignore_not_found
           IN  /\ (result.kind = "raise") = (given = "None" /\ ~ignore_not_found)
               /\ result.kind = "raise" => result.exc = "FileNotFoundError"
               /\ given = "value"
                    => result.source = "default" /\ result.value = DefaultValue("dataframes")
               /\ given = "callable"
                    => result.source = "default()" /\ result.value = DefaultValue("dataframes")
               /\ (given = "None" /\ ignore_not_found)
                    => result.source = "default()" /\ result.value = Frame(<<>>, <<>>)
               /\ decode_calls = 0

\* The caller's default came back although ignore_not_found was True.
C36_Witness ==
    /\ op.name = "get" /\ op.store = "dataframes" /\ pc = "done" /\ AnsweredNotFound
    /\ op.kwargs = [default |-> "value", ignore_not_found |-> TRUE]
    /\ result.kind = "return" /\ result.source = "default"

\* FileNotFoundError with ignore_not_found=False and no default.
C36_WitnessRaises ==
    /\ op.name = "get" /\ op.store = "dataframes" /\ pc = "done" /\ AnsweredNotFound
    /\ op.kwargs = [default |-> "None", ignore_not_found |-> FALSE]
    /\ result.kind = "raise" /\ result.exc = "FileNotFoundError"

\* An empty table with the defaults of get.
C36_WitnessEmpty ==
    /\ op.name = "get" /\ op.store = "dataframes" /\ pc = "done" /\ AnsweredNotFound
    /\ op.kwargs = [default |-> "None", ignore_not_found |-> TRUE]
    /\ result.kind = "return" /\ result.value = Frame(<<>>, <<>>)
    /\ wire.geturl_status = 404 /\ calls["download"] = 0

\* The requests an operation has issued so far, on every endpoint
RequestsIssued ==
    calls["identity"] + calls["refresh"] + calls["prepare"] + calls["upload"]
        + calls["geturl"] + calls["download"] + calls["delete"] + calls["list"]

\* The numbers of attempts of a put and of a get are within their budgets, and
\* a retried call that raised either raised a fatal error or had used its
\* five attempts.
AttemptsWithinBudget ==
    /\ op.name = "put"
            => /\ calls["prepare"] <= 5 /\ calls["upload"] <= 5
               /\ calls["geturl"] = 0 /\ calls["download"] = 0
    /\ op.name = "get"
            => /\ calls["geturl"] <= 5 /\ calls["download"] <= 1
               /\ calls["prepare"] = 0 /\ calls["upload"] = 0
    /\ op.name \in {"put", "get"} => attempt <= 5
    /\ (op.name \in {"put", "get"} /\ pc = "done" /\ result.kind = "raise"
            /\ result.call \in {"prepare", "upload", "geturl"})
            => ~is_retryable_exception(result.exc) \/ result.attempts = 5

\* C37: a put issues at most 5 prepare requests and 5 PUTs, a get at most 5
\* lookups and 1 data fetch; a retry sequence that ends in an error ends in a
\* fatal one or after 5 attempts; and every step of a put or get in progress
\* either ends it or issues one more request, so that it ends after a
\* bounded number of requests whatever they are answered.
C37_BoundedAttempts ==
    /\ []AttemptsWithinBudget
    /\ [][(op.name \in {"put", "get"} /\ pc \notin {"idle", "done"} /\ storeVars' # storeVars)
             => \/ pc' = "done"
                \/ /\ RequestsIssued' > RequestsIssued
                   /\ RequestsIssued' <= RequestsIssued + 2]_vars

\* A put ended by a timeout of its fifth PUT after five prepare attempts.
C37_Witness ==
    /\ op.name = "put" /\ pc = "done" /\ result.kind = "raise"
    /\ result.call = "upload" /\ result.exc = "ReadTimeout"
    /\ calls["prepare"] = 5 /\ calls["upload"] = 5

\* A get returned after five lookups and one data fetch.
C37_WitnessGet ==
    /\ op.name = "get" /\ pc = "done" /\ result.kind = "return"
    /\ calls["geturl"] = 5 /\ calls["download"] = 1

(***************************************************************************)
(* A further claim about the auth session, checked under SpecAuth.         *)
(***************************************************************************)
\* C38: a request that is sent carries a token that is not empty and that a
\* successful refresh issued; as long as the session holds no token every
\* request finds it stale and so starts with a refresh exchange, and no
\* request comes to its Authorization header without a token in the session
\* unless it is refused there.
C38_NeverEmptyBearer ==
    /\ \A t \in Threads :
           /\ flow[t].pc = "sent"
                => /\ flow[t].bearer # EmptyToken
                   /\ flow[t].bearer \in 1..issued
           /\ (flow[t].pc \in {"refresh", "handle", "handle_time"}) => flow[t].exchanges = 1
           /\ (flow[t].pc \in {"apply", "sent"} /\ flow[t].tok_at_check = EmptyToken)
                => flow[t].exchanges = 1
    /\ access_token = EmptyToken => token_expires_soon
    /\ access_token \in 0..issued

\* The first request of the session was sent with the token of its own
\* refresh exchange.
C38_Witness ==
    \E t \in Threads :
        /\ flow[t].pc = "sent"
        /\ flow[t].tok_at_check = EmptyToken /\ flow[t].exchanges = 1
        /\ flow[t].bearer = 1

\* A request was sent without a refresh, with the token the session held.
C38_WitnessReuse ==
    \E t \in Threads :
        /\ flow[t].pc = "sent" /\ flow[t].exchanges = 0
        /\ flow[t].bearer = flow[t].tok_at_check /\ flow[t].bearer # EmptyToken

(***************************************************************************)
(* A claim about concurrent concat calls, checked under SpecConcat.        *)
(***************************************************************************)
\* The rows of the table other appear, in order, among the rows.
RECURSIVE HasRows(_, _)
HasRows(rows, other) ==
    IF other = <<>> THEN TRUE
    ELSE IF rows = <<>> THEN FALSE
    ELSE IF Head(rows) = Head(other) THEN HasRows(Tail(rows), Tail(other))
    ELSE HasRows(Tail(rows), other)

\* C39 as stated: once two concat calls on the key, one per thread, have both
\* returned, their reads not having been disturbed, the table stored under
\* the key contains the rows appended by both.
C39_BothConcatsTakeEffect ==
    (\A t \in Threads : cat[t].pc = "returned" /\ cat[t].fail = "none")
        => \A t \in Threads : HasRows(rows_held(blobs[TableTag]), cat[t].other.cells)

(***************************************************************************)
(* A claim about data_key_is_valid, checked under Spec on the keys of the  *)
(* puts, which serialized_upload hands to it.                              *)
(***************************************************************************)
\* C40 as stated: data_key_is_valid is true only of a non-empty key whose
\* every character is a letter, a digit or one of '.', '_', '-'; a key that
\* ends with a newline is rejected.
C40_ValidOnlyForPatternKeys ==
    (op.name = "put" /\ data_key_is_valid(op.key))
        => /\ MatchesDataKeyPattern(op.key)
           /\ op.key[Len(op.key)] # "\n"

====
